---- MODULE Spec2Model ----
(***************************************************************************)
(* A model of the map-syntax parser of the Obsidian map plugin             *)
(* (src/src/parseMapSyntax.ts, the second module of that file, lines       *)
(* 144-517).  Text is a sequence of one-character strings; every string    *)
(* operation of the source (trim, split, indexOf, the regular expressions, *)
(* parseFloat, JSON.parse) is computed character by character.             *)
(***************************************************************************)
EXTENDS Integers, Sequences, FiniteSets, TLC

VARIABLES
    given,      \* the lines the input text was written from (records)
    source,     \* the argument of parseMapSyntax: a sequence of characters
    pc,         \* "start", "loop", "done"
    lines,      \* the filtered lines the loop runs over
    lineIndex,  \* number of lines the loop has processed
    pins,       \* result.pins
    errors,     \* result.errors
    config,     \* result.config
    visiblePins,    \* the argument of calculateBounds
    optimalView,    \* what calculateBounds returned
    props,          \* MapComponent: the pins, initialCenter and initialZoom it is given
    hiddenGroups,   \* MapComponent: the hiddenGroups state
    selectedPin,    \* MapComponent: the selectedPin state
    olMapRef,       \* MapComponent: olMapRef.current, the map with its click handler
    initialViewRef, \* MapComponent: initialViewRef.current
    lastEvent,      \* MapComponent: the last event handled, and selectedPin before it
    containers,     \* MapPlugin: the containers processMap created, with their roots
    mapInstances,   \* MapPlugin: the keys of this.mapInstances
    unloaded        \* MapPlugin: onunload has run

parserVars == <<given, source, pc, lines, lineIndex, pins, errors, config>>
viewVars == <<visiblePins, optimalView>>
componentVars == <<props, hiddenGroups, selectedPin, olMapRef, initialViewRef, lastEvent>>
pluginVars == <<containers, mapInstances, unloaded>>

vars == <<parserVars, viewVars, componentVars, pluginVars>>

\* null, and a reference that has no value yet
null == [null |-> TRUE]

\* the parts of the state a specification does not use stay as they are here
ParserIdle ==
    /\ given = <<>> /\ source = <<>> /\ pc = "idle" /\ lines = <<>>
    /\ lineIndex = 0 /\ pins = <<>> /\ errors = <<>> /\ config = null

ViewIdle == visiblePins = <<>> /\ optimalView = null

ComponentIdle ==
    /\ props = null /\ hiddenGroups = {} /\ selectedPin = null
    /\ olMapRef = null /\ initialViewRef = null /\ lastEvent = null

PluginIdle == containers = <<>> /\ mapInstances = {} /\ unloaded = FALSE

----------------------------------------------------------------------------
(* Characters and elementary string operations                             *)

Digits == <<"0", "1", "2", "3", "4", "5", "6", "7", "8", "9">>

Lower == <<"a", "b", "c", "d", "e", "f", "g", "h", "i", "j", "k", "l", "m",
           "n", "o", "p", "q", "r", "s", "t", "u", "v", "w", "x", "y", "z">>

Upper == <<"A", "B", "C", "D", "E", "F", "G", "H", "I", "J", "K", "L", "M",
           "N", "O", "P", "Q", "R", "S", "T", "U", "V", "W", "X", "Y", "Z">>

Range(f) == {f[i] : i \in DOMAIN f}

IsDigit(c) == c \in Range(Digits)

DigitVal(c) == (CHOOSE i \in DOMAIN Digits : Digits[i] = c) - 1

\* [A-Z0-9] under the i flag
IsAlnum(c) == c \in Range(Digits) \cup Range(Lower) \cup Range(Upper)

\* a conversion that keeps the letter case
keepCase(s) == s

\* String.prototype.toUpperCase, one character
UpperChar(c) ==
    IF c \in Range(Lower) THEN Upper[CHOOSE i \in DOMAIN Lower : Lower[i] = c]
    ELSE c

toUpperCase(s) == [i \in DOMAIN s |-> UpperChar(s[i])]

\* the white space String.prototype.trim removes and \s matches
WhiteSpace == {" ", "\t", "\n", "\r"}

\* s.substring(from, to) with 0-based from, exclusive to, as in the source
substring(s, from, to) == SubSeq(s, from + 1, to)

\* s.substring(from)
substringFrom(s, from) == SubSeq(s, from + 1, Len(s))

RECURSIVE TrimLeft(_)
TrimLeft(s) ==
    IF s # <<>> /\ Head(s) \in WhiteSpace THEN TrimLeft(Tail(s)) ELSE s

RECURSIVE TrimRight(_)
TrimRight(s) ==
    IF s # <<>> /\ s[Len(s)] \in WhiteSpace
    THEN TrimRight(SubSeq(s, 1, Len(s) - 1))
    ELSE s

\* String.prototype.trim
trim(s) == TrimRight(TrimLeft(s))

\* s.startsWith(p)
startsWith(s, p) == Len(s) >= Len(p) /\ SubSeq(s, 1, Len(p)) = p

\* s.endsWith(p)
endsWith(s, p) == Len(s) >= Len(p) /\ SubSeq(s, Len(s) - Len(p) + 1, Len(s)) = p

\* s.indexOf(p, from): 0-based index of the first occurrence at or after
\* from, -1 when there is none
indexOf(s, p, from) ==
    LET hits == {i \in from .. (Len(s) - Len(p)) : SubSeq(s, i + 1, i + Len(p)) = p}
    IN  IF hits = {} THEN -1 ELSE CHOOSE i \in hits : \A j \in hits : i <= j

\* s.slice(1, -1)
slice1(s) == IF Len(s) >= 2 THEN SubSeq(s, 2, Len(s) - 1) ELSE <<>>

\* s.split("\n")
RECURSIVE split(_)
split(s) ==
    LET k == indexOf(s, <<"\n">>, 0)
    IN  IF k = -1 THEN <<s>>
        ELSE <<substring(s, 0, k)>> \o split(substringFrom(s, k + 1))

----------------------------------------------------------------------------
(* Numbers.  A finite number is the decimal m * 10^(-e), kept normalised   *)
(* (no trailing zero in the fraction); NaN and the infinities are values   *)
(* of their own.                                                           *)

NaN == [kind |-> "NaN"]
Infinity(sign) == [kind |-> "Infinity", sign |-> sign]

RECURSIVE Pow10(_)
Pow10(n) == IF n = 0 THEN 1 ELSE 10 * Pow10(n - 1)

RECURSIVE Normal(_, _)
Normal(m, e) ==
    IF e > 0 /\ m % 10 = 0 THEN Normal(m \div 10, e - 1)
    ELSE [kind |-> "num", m |-> m, e |-> e]

Int2Num(n) == [kind |-> "num", m |-> n, e |-> 0]

isNaN(x) == x.kind = "NaN"

\* x < n and x > n for a number x and an integer n, as JavaScript compares
\* them: every comparison with NaN is false
LessThan(x, n) ==
    CASE x.kind = "NaN" -> FALSE
      [] x.kind = "Infinity" -> x.sign < 0
      [] OTHER -> x.m < n * Pow10(x.e)

GreaterThan(x, n) ==
    CASE x.kind = "NaN" -> FALSE
      [] x.kind = "Infinity" -> x.sign > 0
      [] OTHER -> x.m > n * Pow10(x.e)

\* the length of the run of decimal digits of s that starts at index i
RECURSIVE DigitRun(_, _)
DigitRun(s, i) ==
    IF i <= Len(s) /\ IsDigit(s[i]) THEN 1 + DigitRun(s, i + 1) ELSE 0

\* the value of a sequence of decimal digits
RECURSIVE DigitsVal(_)
DigitsVal(d) ==
    IF d = <<>> THEN 0
    ELSE 10 * DigitsVal(SubSeq(d, 1, Len(d) - 1)) + DigitVal(d[Len(d)])

\* parseFloat: the longest prefix of the trimmed string that is a
\* StrDecimalLiteral (sign, Infinity, digits, fraction, exponent)
parseFloat(str) ==
    LET Value(sg, m, e) ==
            IF e >= 0 THEN Normal(sg * m, e) ELSE Normal(sg * m * Pow10(-e), 0)
        \* the exponent: "e" or "E" at iE, a sign, the nX digits from iX on
        Exponent(s, eNeg, iX, nX) ==
            IF nX = 0 THEN 0
            ELSE (IF eNeg THEN -1 ELSE 1) * DigitsVal(SubSeq(s, iX, iX + nX - 1))
        ExponentFrom(s, iE, hasE, iX) ==
            Exponent(s, hasE /\ iE + 1 <= Len(s) /\ s[iE + 1] = "-", iX,
                     IF hasE THEN DigitRun(s, iX) ELSE 0)
        ExponentAt(s, iE, hasE) ==
            ExponentFrom(s, iE, hasE,
                         IF hasE /\ iE + 1 <= Len(s) /\ s[iE + 1] \in {"+", "-"}
                         THEN iE + 2 ELSE iE + 1)
        \* nInt digits from i0 on, a dot or none, nFr digits
        Decimal(s, i0, sg, nInt, nFr, iE) ==
            IF nInt + nFr = 0 THEN NaN
            ELSE Value(sg,
                       DigitsVal(SubSeq(s, i0, i0 + nInt - 1)
                                 \o SubSeq(s, i0 + nInt + 1, i0 + nInt + nFr)),
                       nFr - ExponentAt(s, iE, iE <= Len(s) /\ s[iE] \in {"e", "E"}))
        Fraction(s, i0, sg, nInt, dot, nFr) ==
            Decimal(s, i0, sg, nInt, nFr, i0 + nInt + (IF dot THEN 1 + nFr ELSE 0))
        Point(s, i0, sg, nInt, dot) ==
            Fraction(s, i0, sg, nInt, dot, IF dot THEN DigitRun(s, i0 + nInt + 1) ELSE 0)
        Integer(s, i0, sg, nInt) ==
            Point(s, i0, sg, nInt, i0 + nInt <= Len(s) /\ s[i0 + nInt] = ".")
        Signed(s, i0, sg) ==
            IF startsWith(SubSeq(s, i0, Len(s)), <<"I", "n", "f", "i", "n", "i", "t", "y">>)
            THEN Infinity(sg)
            ELSE Integer(s, i0, sg, DigitRun(s, i0))
        Trimmed(s) ==
            Signed(s, IF s # <<>> /\ s[1] \in {"+", "-"} THEN 2 ELSE 1,
                   IF s # <<>> /\ s[1] = "-" THEN -1 ELSE 1)
    IN  Trimmed(TrimLeft(str))

----------------------------------------------------------------------------
(* The comment scanner                                                     *)

\* the loop body without the quote tracking: only braces hide a "#"
ScanStepNoQuotes(st, char, i) ==
    IF st.found # -1 THEN st
    ELSE IF st.escaped THEN [st EXCEPT !.escaped = FALSE]
    ELSE IF char = "\\" THEN [st EXCEPT !.escaped = TRUE]
    ELSE IF char = "{" THEN [st EXCEPT !.braceDepth = @ + 1]
    ELSE IF char = "}" THEN [st EXCEPT !.braceDepth = @ - 1]
    ELSE IF char = "#" /\ st.braceDepth = 0 THEN [st EXCEPT !.found = i]
    ELSE st

\* One iteration of the loop of findCommentIndex at 0-based position i:
\* st holds the four locals of the source and `found`, the index returned
\* (-1 while the loop has not returned).
ScanStep(st, char, i) ==
    IF st.found # -1 THEN st
    ELSE IF st.escaped THEN [st EXCEPT !.escaped = FALSE]
    ELSE IF char = "\\" THEN [st EXCEPT !.escaped = TRUE]
    ELSE IF st.insideQuotes
      THEN IF char = st.quoteChar
           THEN [st EXCEPT !.insideQuotes = FALSE, !.quoteChar = ""]
           ELSE st
    ELSE IF char = "\"" \/ char = "'"
      THEN [st EXCEPT !.insideQuotes = TRUE, !.quoteChar = char]
    ELSE IF char = "{" THEN [st EXCEPT !.braceDepth = @ + 1]
    ELSE IF char = "}" THEN [st EXCEPT !.braceDepth = @ - 1]
    ELSE IF char = "#" /\ st.braceDepth = 0 THEN [st EXCEPT !.found = i]
    ELSE st

\* the iterations for the 1-based positions lo .. hi, in order
RECURSIVE ScanRange(_, _, _, _)
ScanRange(line, lo, hi, st) ==
    IF lo > hi THEN st
    ELSE IF lo = hi THEN ScanStep(st, line[lo], lo - 1)
    ELSE LET mid  == (lo + hi) \div 2
             left == ScanRange(line, lo, mid, st)
         IN  IF left.found # -1 THEN left ELSE ScanRange(line, mid + 1, hi, left)

findCommentIndex(line) ==
    ScanRange(line, 1, Len(line),
              [insideQuotes |-> FALSE, quoteChar |-> "", braceDepth |-> 0,
               escaped |-> FALSE, found |-> -1]).found

----------------------------------------------------------------------------
(* The regular expressions of parseMapLine and parseRemainderAndApply.     *)
(* Each returns [matched |-> FALSE] or the groups of the match.            *)

NoMatch == [matched |-> FALSE]

\* bracketMatch without the ^ anchor: the first "[...]" anywhere in the line
bracketMatchAnywhere(workingLine) ==
    LET open  == indexOf(workingLine, <<"[">>, 0)
        close == indexOf(workingLine, <<"]">>, open + 1)
    IN  IF open # -1 /\ close >= open + 2
        THEN [matched |-> TRUE,
              contents |-> substring(workingLine, open + 1, close),
              remainder |-> substringFrom(workingLine, close + 1)]
        ELSE NoMatch

\* /^\[([^\]]+)\](.*)$/ : "[", a non-empty run without "]", "]", the rest
bracketMatch(workingLine) ==
    LET close == indexOf(workingLine, <<"]">>, 0)   \* the first "]"
    IN  IF workingLine # <<>> /\ workingLine[1] = "[" /\ close >= 2
        THEN [matched |-> TRUE,
              contents |-> substring(workingLine, 1, close),
              remainder |-> substringFrom(workingLine, close + 1)]
        ELSE NoMatch

\* the length of the run of [A-Z0-9] characters (i flag) that starts at
\* 1-based index i
RECURSIVE AlnumRun(_, _)
AlnumRun(s, i) ==
    IF i <= Len(s) /\ IsAlnum(s[i]) THEN 1 + AlnumRun(s, i + 1) ELSE 0

\* /^([A-Z0-9]{4,}\+[A-Z0-9]{2,})(.*)$/i
plusCodeMatch(contents) ==
    LET n1 == AlnumRun(contents, 1)
        n2 == AlnumRun(contents, n1 + 2)
    IN  IF n1 >= 4 /\ n1 + 1 <= Len(contents) /\ contents[n1 + 1] = "+" /\ n2 >= 2
        THEN [matched |-> TRUE,
              plusCode |-> SubSeq(contents, 1, n1 + 1 + n2),
              label |-> SubSeq(contents, n1 + n2 + 2, Len(contents))]
        ELSE NoMatch

\* coordMatch with /^([^,]+),\s*(.+)$/ : the second group may hold commas
coordMatchAnyRest(contents) ==
    LET comma == indexOf(contents, <<",">>, 0)
        after == substringFrom(contents, comma + 1)
        rest  == TrimLeft(after)
    IN  IF comma >= 1 /\ after # <<>>
        THEN [matched |-> TRUE,
              latStr |-> substring(contents, 0, comma),
              lngStr |-> IF rest = <<>> THEN <<after[Len(after)]>> ELSE rest]
        ELSE NoMatch

\* /^([^,]+),\s*([^,]+)$/ : exactly one comma, a non-empty field on each
\* side; \s* takes the white space after the comma but leaves the second
\* group at least one character
coordMatch(contents) ==
    LET comma == indexOf(contents, <<",">>, 0)
        after == substringFrom(contents, comma + 1)
        rest  == TrimLeft(after)
    IN  IF comma >= 1 /\ after # <<>> /\ indexOf(after, <<",">>, 0) = -1
        THEN [matched |-> TRUE,
              latStr |-> substring(contents, 0, comma),
              lngStr |-> IF rest = <<>> THEN <<after[Len(after)]>> ELSE rest]
        ELSE NoMatch

\* the 0-based index of the last "{" of s, -1 when there is none
lastBrace(s) ==
    LET hits == {i \in 1 .. Len(s) : s[i] = "{"}
    IN  IF hits = {} THEN -1 ELSE (CHOOSE i \in hits : \A j \in hits : j <= i) - 1

\* /^(.*)(\{.*\})$/ : the string ends with "}", and the greedy first group
\* runs up to the last "{"
jsonMatch(remainderTrimmed) ==
    LET open == lastBrace(remainderTrimmed)
    IN  IF remainderTrimmed # <<>> /\ remainderTrimmed[Len(remainderTrimmed)] = "}"
           /\ open >= 0
        THEN [matched |-> TRUE,
              labelPart |-> substring(remainderTrimmed, 0, open),
              jsonPart |-> substringFrom(remainderTrimmed, open)]
        ELSE NoMatch

\* parseLabel: trim, then drop one pair of surrounding quotes
parseLabel(labelStr) ==
    LET trimmed == trim(labelStr)
    IN  IF \/ (startsWith(trimmed, <<"\"">>) /\ endsWith(trimmed, <<"\"">>))
           \/ (startsWith(trimmed, <<"'">>) /\ endsWith(trimmed, <<"'">>))
        THEN slice1(trimmed)
        ELSE trimmed

----------------------------------------------------------------------------
(* JSON.parse.  A parse step returns [ok, v, i]: whether a value was read, *)
(* the value, and the 1-based index of the first character after it.       *)
(* Values: [t |-> "str", v |-> characters], [t |-> "num", v |-> text],     *)
(* [t |-> "bool", v |-> b], [t |-> "null"], [t |-> "arr", v |-> values],   *)
(* [t |-> "obj", v |-> <<key, value>> pairs in source order].              *)

JFail == [ok |-> FALSE]

JsonWhiteSpace == {" ", "\t", "\n", "\r"}

HexDigits == Range(Digits) \cup {"a", "b", "c", "d", "e", "f", "A", "B", "C", "D", "E", "F"}

RECURSIVE JSkip(_, _)
JSkip(s, i) == IF i <= Len(s) /\ s[i] \in JsonWhiteSpace THEN JSkip(s, i + 1) ELSE i

\* the characters of a string literal from index i (after the opening
\* quote) on; acc is what has been decoded so far.  A \uXXXX escape decodes
\* to the one placeholder character "\\u".
RECURSIVE JChars(_, _, _)
JChars(s, i, acc) ==
    IF i > Len(s) THEN JFail
    ELSE IF s[i] = "\"" THEN [ok |-> TRUE, v |-> [t |-> "str", v |-> acc], i |-> i + 1]
    ELSE IF s[i] \in {"\t", "\n", "\r"} THEN JFail
    ELSE IF s[i] = "\\"
      THEN IF i + 1 > Len(s) THEN JFail
           ELSE LET c == s[i + 1]
                IN  CASE c \in {"\"", "\\", "/"} -> JChars(s, i + 2, Append(acc, c))
                      [] c = "n" -> JChars(s, i + 2, Append(acc, "\n"))
                      [] c = "t" -> JChars(s, i + 2, Append(acc, "\t"))
                      [] c = "r" -> JChars(s, i + 2, Append(acc, "\r"))
                      [] c = "b" -> JChars(s, i + 2, Append(acc, "\\b"))
                      [] c = "f" -> JChars(s, i + 2, Append(acc, "\f"))
                      [] c = "u" ->
                           IF i + 5 <= Len(s) /\ \A k \in 2 .. 5 : s[i + k] \in HexDigits
                           THEN JChars(s, i + 6, Append(acc, "\\u"))
                           ELSE JFail
                      [] OTHER -> JFail
    ELSE JChars(s, i + 1, Append(acc, s[i]))

\* a number: -? (0 | [1-9][0-9]*) (. [0-9]+)? ([eE] [+-]? [0-9]+)?
JNumber(s, i) ==
    LET Number(i0, nInt, dot, nFr, hasE, nX, end) ==
            IF \/ nInt = 0
               \/ (nInt > 1 /\ s[i0] = "0")
               \/ (dot /\ nFr = 0)
               \/ (hasE /\ nX = 0)
            THEN JFail
            ELSE [ok |-> TRUE, v |-> [t |-> "num", v |-> SubSeq(s, i, end - 1)], i |-> end]
        ExponentDigits(i0, nInt, dot, nFr, iE, hasE, iX, nX) ==
            Number(i0, nInt, dot, nFr, hasE, nX, IF hasE THEN iX + nX ELSE iE)
        ExponentFrom(i0, nInt, dot, nFr, iE, hasE, iX) ==
            ExponentDigits(i0, nInt, dot, nFr, iE, hasE, iX,
                           IF hasE THEN DigitRun(s, iX) ELSE 0)
        ExponentAt(i0, nInt, dot, nFr, iE, hasE) ==
            ExponentFrom(i0, nInt, dot, nFr, iE, hasE,
                         IF hasE /\ iE + 1 <= Len(s) /\ s[iE + 1] \in {"+", "-"}
                         THEN iE + 2 ELSE iE + 1)
        Fraction(i0, nInt, iF, dot, nFr, iE) ==
            ExponentAt(i0, nInt, dot, nFr, iE, iE <= Len(s) /\ s[iE] \in {"e", "E"})
        Point(i0, nInt, iF, dot, nFr) ==
            Fraction(i0, nInt, iF, dot, nFr, IF dot THEN iF + 1 + nFr ELSE iF)
        Integer(i0, nInt, iF, dot) ==
            Point(i0, nInt, iF, dot, IF dot THEN DigitRun(s, iF + 1) ELSE 0)
        Signed(i0, nInt) ==
            Integer(i0, nInt, i0 + nInt, i0 + nInt <= Len(s) /\ s[i0 + nInt] = ".")
        From(i0) == Signed(i0, DigitRun(s, i0))
    IN  From(IF s[i] = "-" THEN i + 1 ELSE i)

JLiteral(s, i, word, val) ==
    IF i + Len(word) - 1 <= Len(s) /\ SubSeq(s, i, i + Len(word) - 1) = word
    THEN [ok |-> TRUE, v |-> val, i |-> i + Len(word)]
    ELSE JFail

RECURSIVE JValue(_, _), JElements(_, _, _), JMembers(_, _, _)

\* a value that starts at index i (white space already skipped)
JValue(s, i) ==
    IF i > Len(s) THEN JFail
    ELSE CASE s[i] = "\"" -> JChars(s, i + 1, <<>>)
           [] s[i] = "{" ->
                LET j == JSkip(s, i + 1)
                IN  IF j <= Len(s) /\ s[j] = "}"
                    THEN [ok |-> TRUE, v |-> [t |-> "obj", v |-> <<>>], i |-> j + 1]
                    ELSE JMembers(s, j, <<>>)
           [] s[i] = "[" ->
                LET j == JSkip(s, i + 1)
                IN  IF j <= Len(s) /\ s[j] = "]"
                    THEN [ok |-> TRUE, v |-> [t |-> "arr", v |-> <<>>], i |-> j + 1]
                    ELSE JElements(s, j, <<>>)
           [] s[i] = "t" -> JLiteral(s, i, <<"t", "r", "u", "e">>, [t |-> "bool", v |-> TRUE])
           [] s[i] = "f" -> JLiteral(s, i, <<"f", "a", "l", "s", "e">>, [t |-> "bool", v |-> FALSE])
           [] s[i] = "n" -> JLiteral(s, i, <<"n", "u", "l", "l">>, [t |-> "null"])
           [] s[i] = "-" \/ IsDigit(s[i]) -> JNumber(s, i)
           [] OTHER -> JFail

\* the elements of an array from index i on, up to and including "]"
JElements(s, i, acc) ==
    LET After(r, j) ==
            IF ~r.ok \/ j > Len(s) THEN JFail
            ELSE IF s[j] = "," THEN JElements(s, JSkip(s, j + 1), Append(acc, r.v))
            ELSE IF s[j] = "]"
              THEN [ok |-> TRUE, v |-> [t |-> "arr", v |-> Append(acc, r.v)], i |-> j + 1]
            ELSE JFail
        Element(r) == After(r, IF r.ok THEN JSkip(s, r.i) ELSE 0)
    IN  Element(JValue(s, i))

\* the members of an object from index i on, up to and including "}"
JMembers(s, i, acc) ==
    LET After(kv, r, j) ==
            IF ~r.ok \/ j > Len(s) THEN JFail
            ELSE IF s[j] = "," THEN JMembers(s, JSkip(s, j + 1), Append(acc, kv))
            ELSE IF s[j] = "}"
              THEN [ok |-> TRUE, v |-> [t |-> "obj", v |-> Append(acc, kv)], i |-> j + 1]
            ELSE JFail
        Pair(k, r) == After(<<k.v.v, r.v>>, r, IF r.ok THEN JSkip(s, r.i) ELSE 0)
        Colon(k, c) ==
            Pair(k, IF k.ok /\ c <= Len(s) /\ s[c] = ":"
                      THEN JValue(s, JSkip(s, c + 1)) ELSE JFail)
        Key(k) == Colon(k, IF k.ok THEN JSkip(s, k.i) ELSE 0)
    IN  Key(IF i <= Len(s) /\ s[i] = "\"" THEN JChars(s, i + 1, <<>>) ELSE JFail)

\* JSON.parse(text): one value with white space around it and nothing else;
\* [ok |-> FALSE] stands for the SyntaxError it throws
JSONparse(text) ==
    LET Whole(r) ==
            IF r.ok /\ JSkip(text, r.i) = Len(text) + 1 THEN [ok |-> TRUE, v |-> r.v]
            ELSE JFail
    IN  Whole(JValue(text, JSkip(text, 1)))

\* attributes[key] of a parsed value: the last member of that name of an
\* object; "undefined" when there is none or the value is no object
Undefined == [t |-> "undefined"]

Member(attributes, key) ==
    IF attributes.t # "obj" THEN Undefined
    ELSE LET hits == {i \in DOMAIN attributes.v : attributes.v[i][1] = key}
         IN  IF hits = {} THEN Undefined
             ELSE attributes.v[CHOOSE i \in hits : \A j \in hits : j <= i][2]

\* `x && typeof x === "string"`: a non-empty string
TruthyString(x) == x.t = "str" /\ x.v # <<>>

----------------------------------------------------------------------------
(* The Open Location Code library behind parsePlusCode (the package        *)
(* "open-location-code" the source requires at line 145), as far as the    *)
(* parser uses it: codes of at most PAIR_CODE_LENGTH digits.  Degrees are  *)
(* integers in units of 1/160000 of a degree, so that the cell centres of  *)
(* ten-digit codes and the reference location are exact.                   *)

UnitsPerDegree == 160000
CODE_ALPHABET == <<"2", "3", "4", "5", "6", "7", "8", "9", "C", "F",
                   "G", "H", "J", "M", "P", "Q", "R", "V", "W", "X">>
ENCODING_BASE == 20
SEPARATOR_POSITION == 8
PAIR_CODE_LENGTH == 10
PAIR_PRECISION == 8000
LATITUDE_MAX == 90
LONGITUDE_MAX == 180

\* CODE_ALPHABET_.indexOf(c), 0-based, -1 when c is no code digit
AlphabetIndex(c) ==
    IF c \in Range(CODE_ALPHABET)
    THEN (CHOOSE i \in DOMAIN CODE_ALPHABET : CODE_ALPHABET[i] = c) - 1
    ELSE -1

\* the maximal runs of the padding character "0" in code, as their lengths
PaddingRuns(code) ==
    {<<i, j>> \in (1 .. Len(code)) \X (1 .. Len(code)) :
        /\ i <= j
        /\ \A k \in i .. j : code[k] = "0"
        /\ (i = 1 \/ code[i - 1] # "0")
        /\ (j = Len(code) \/ code[j + 1] # "0")}

olcIsValid(code) ==
    LET sep == indexOf(code, <<"+">>, 0)
        pad == indexOf(code, <<"0">>, 0)
    IN  /\ code # <<>>
        /\ sep # -1
        /\ indexOf(code, <<"+">>, sep + 1) = -1
        /\ Len(code) # 1
        /\ sep <= SEPARATOR_POSITION /\ sep % 2 = 0
        /\ pad > -1 =>
             /\ sep >= SEPARATOR_POSITION
             /\ pad # 0
             /\ Cardinality(PaddingRuns(code)) = 1
             /\ \A r \in PaddingRuns(code) :
                    (r[2] - r[1] + 1) % 2 = 0 /\ r[2] - r[1] + 1 <= SEPARATOR_POSITION - 2
             /\ code[Len(code)] = "+"
        /\ Len(code) - sep - 1 # 1
        /\ \A i \in DOMAIN code :
               code[i] \in {"+", "0"} \/ AlphabetIndex(UpperChar(code[i])) # -1

olcIsShort(code) ==
    olcIsValid(code) /\ indexOf(code, <<"+">>, 0) < SEPARATOR_POSITION

olcIsFull(code) ==
    /\ olcIsValid(code)
    /\ ~olcIsShort(code)
    /\ AlphabetIndex(UpperChar(code[1])) * ENCODING_BASE < LATITUDE_MAX * 2
    /\ Len(code) > 1 => AlphabetIndex(UpperChar(code[2])) * ENCODING_BASE < LONGITUDE_MAX * 2

\* the code digits of a code: no separator, no padding, upper case
CodeDigits(code) == toUpperCase(SelectSeq(code, LAMBDA c : c \notin {"+", "0"}))

\* the sum over the pairs of digits[from], digits[from + 2], ... of
\* index * place value, in units of 1/PAIR_PRECISION of a degree
RECURSIVE PairSum(_, _, _, _)
PairSum(digits, from, n, pv) ==
    IF from > n THEN 0
    ELSE AlphabetIndex(digits[from]) * pv
         + PairSum(digits, from + 2, n, pv \div ENCODING_BASE)

\* decode of a full code: the centre of the cell, [lat, lng] in units
olcDecodeCentre(code) ==
    LET all    == CodeDigits(code)
        n      == IF Len(all) < PAIR_CODE_LENGTH THEN Len(all) ELSE PAIR_CODE_LENGTH
        first  == 160000                        \* PAIR_FIRST_PLACE_VALUE_
        pv     == first \div (ENCODING_BASE ^ ((n \div 2) - 1))
        scale  == UnitsPerDegree \div PAIR_PRECISION
        latLo  == (PairSum(all, 1, n, first) - LATITUDE_MAX * PAIR_PRECISION) * scale
        lngLo  == (PairSum(all, 2, n, first) - LONGITUDE_MAX * PAIR_PRECISION) * scale
        half   == (pv * scale) \div 2
        latC   == latLo + half
        lngC   == lngLo + half
    IN  [lat |-> IF latC > LATITUDE_MAX * UnitsPerDegree
                 THEN LATITUDE_MAX * UnitsPerDegree ELSE latC,
         lng |-> IF lngC > LONGITUDE_MAX * UnitsPerDegree
                 THEN LONGITUDE_MAX * UnitsPerDegree ELSE lngC,
         codeLength |-> Len(all)]

\* decode: [ok |-> FALSE, cause] stands for the exception it throws
olcDecode(code) ==
    IF olcIsFull(code) THEN [ok |-> TRUE, area |-> olcDecodeCentre(code)]
    ELSE [ok |-> FALSE, cause |-> "Passed Plus Code is not a valid full code"]

clipLatitude(lat) ==
    IF lat > LATITUDE_MAX * UnitsPerDegree THEN LATITUDE_MAX * UnitsPerDegree
    ELSE IF lat < -LATITUDE_MAX * UnitsPerDegree THEN -LATITUDE_MAX * UnitsPerDegree
    ELSE lat

RECURSIVE normalizeLongitude(_)
normalizeLongitude(lng) ==
    IF lng < -LONGITUDE_MAX * UnitsPerDegree THEN normalizeLongitude(lng + 360 * UnitsPerDegree)
    ELSE IF lng >= LONGITUDE_MAX * UnitsPerDegree THEN normalizeLongitude(lng - 360 * UnitsPerDegree)
    ELSE lng

\* the n pairs of code digits of latVal and lngVal, most significant first
RECURSIVE PairDigits(_, _, _)
PairDigits(latVal, lngVal, n) ==
    IF n = 0 THEN <<>>
    ELSE PairDigits(latVal \div ENCODING_BASE, lngVal \div ENCODING_BASE, n - 1)
         \o <<CODE_ALPHABET[(latVal % ENCODING_BASE) + 1],
              CODE_ALPHABET[(lngVal % ENCODING_BASE) + 1]>>

\* encode(latitude, longitude, codeLength) for codeLength = PAIR_CODE_LENGTH
olcEncode(latitude, longitude) ==
    LET lat0   == clipLatitude(latitude)
        lat    == IF lat0 = LATITUDE_MAX * UnitsPerDegree
                  THEN lat0 - UnitsPerDegree \div PAIR_PRECISION ELSE lat0
        lng    == normalizeLongitude(longitude)
        scale  == UnitsPerDegree \div PAIR_PRECISION
        latVal == (lat + LATITUDE_MAX * UnitsPerDegree) \div scale
        lngVal == (lng + LONGITUDE_MAX * UnitsPerDegree) \div scale
        code   == PairDigits(latVal, lngVal, PAIR_CODE_LENGTH \div 2)
    IN  SubSeq(code, 1, SEPARATOR_POSITION) \o <<"+">>
        \o SubSeq(code, SEPARATOR_POSITION + 1, PAIR_CODE_LENGTH)

\* recoverNearest(shortCode, referenceLatitude, referenceLongitude)
olcRecoverNearest(shortCode, referenceLatitude, referenceLongitude) ==
    LET \* the cell of the padded code, moved by one resolution towards the
        \* reference when it is more than half a resolution away
        Nearest(refLat, refLng, resolution, halfResolution, area) ==
            [ok |-> TRUE,
             code |-> olcEncode(
                 IF refLat + halfResolution < area.lat
                    /\ area.lat - resolution >= -LATITUDE_MAX * UnitsPerDegree
                 THEN area.lat - resolution
                 ELSE IF refLat - halfResolution > area.lat
                         /\ area.lat + resolution <= LATITUDE_MAX * UnitsPerDegree
                 THEN area.lat + resolution
                 ELSE area.lat,
                 IF refLng + halfResolution < area.lng THEN area.lng - resolution
                 ELSE IF refLng - halfResolution > area.lng THEN area.lng + resolution
                 ELSE area.lng)]
        Padded(refLat, refLng, code, paddingLength, resolution) ==
            Nearest(refLat, refLng, resolution, resolution \div 2,
                    olcDecodeCentre(SubSeq(olcEncode(refLat, refLng), 1, paddingLength) \o code))
        \* resolution: 20 ^ (2 - paddingLength / 2) degrees
        Short(refLat, refLng, code, paddingLength) ==
            Padded(refLat, refLng, code, paddingLength,
                   (UnitsPerDegree * ENCODING_BASE * ENCODING_BASE)
                       \div (ENCODING_BASE ^ (paddingLength \div 2)))
        Recover(code) ==
            Short(clipLatitude(referenceLatitude), normalizeLongitude(referenceLongitude),
                  code, SEPARATOR_POSITION - indexOf(code, <<"+">>, 0))
    IN  IF ~olcIsShort(shortCode)
        THEN IF olcIsFull(shortCode) THEN [ok |-> TRUE, code |-> toUpperCase(shortCode)]
             ELSE [ok |-> FALSE, cause |-> "Passed short code is not valid"]
        ELSE Recover(toUpperCase(shortCode))

\* a coordinate in units as a number: units / 160000 = (units / 10) * 625 / 10^7
Units2Num(u) == Normal((u \div 10) * 625, 7)

----------------------------------------------------------------------------
(* The parser.  A MapPin is a function from the keys it has to their       *)
(* values; a call that may throw returns [ok |-> TRUE, pin] or             *)
(* [ok |-> FALSE, message], the message of the Error thrown.               *)

Thrown(message) == [ok |-> FALSE, message |-> message]
Returned(pin) == [ok |-> TRUE, pin |-> pin]

\* pin.key = value
Put(pin, key, value) == (key :> value) @@ pin

\* the reference location of parsePlusCode, 40.7589 and -73.9851 degrees
ReferenceLatitude == 6521424
ReferenceLongitude == -11837616

\* parsePlusCode that decodes every code as it is written
parsePlusCodeDirect(plusCode) ==
    LET decoded == olcDecode(toUpperCase(plusCode))
    IN  IF ~decoded.ok THEN Thrown(<<"Invalid Plus Code: ", decoded.cause>>)
        ELSE Returned([lat |-> Units2Num(decoded.area.lat),
                       lng |-> Units2Num(decoded.area.lng)])

parsePlusCode(plusCode) ==
    LET Pin(recovered, decoded) ==
            IF ~recovered.ok THEN Thrown(<<"Invalid Plus Code: ", recovered.cause>>)
            ELSE IF ~decoded.ok THEN Thrown(<<"Invalid Plus Code: ", decoded.cause>>)
            ELSE Returned([lat |-> Units2Num(decoded.area.lat),
                           lng |-> Units2Num(decoded.area.lng)])
        Decode(recovered) == Pin(recovered, olcDecode(recovered.code))
        Recover(codeToUse, plusIndex) ==
            Decode(IF plusIndex < 8
                   THEN olcRecoverNearest(codeToUse, ReferenceLatitude, ReferenceLongitude)
                   ELSE [ok |-> TRUE, code |-> codeToUse])
        Code(codeToUse) == Recover(codeToUse, indexOf(codeToUse, <<"+">>, 0))
    IN  Code(toUpperCase(plusCode))

\* parseBracket with exclusive bounds
parseBracketExclusive(latStr, lngStr) ==
    LET lat == parseFloat(trim(latStr))
        lng == parseFloat(trim(lngStr))
    IN  IF isNaN(lat) \/ isNaN(lng) THEN Thrown(<<"Invalid coordinates">>)
        ELSE IF ~GreaterThan(lat, -90) \/ ~LessThan(lat, 90)
          THEN Thrown(<<"Latitude must be between -90 and 90">>)
        ELSE IF ~GreaterThan(lng, -180) \/ ~LessThan(lng, 180)
          THEN Thrown(<<"Longitude must be between -180 and 180">>)
        ELSE Returned([lat |-> lat, lng |-> lng])

\* parseBracket with the longitude checked before the latitude
parseBracketLongitudeFirst(latStr, lngStr) ==
    LET lat == parseFloat(trim(latStr))
        lng == parseFloat(trim(lngStr))
    IN  IF isNaN(lat) \/ isNaN(lng) THEN Thrown(<<"Invalid coordinates">>)
        ELSE IF LessThan(lng, -180) \/ GreaterThan(lng, 180)
          THEN Thrown(<<"Longitude must be between -180 and 180">>)
        ELSE IF LessThan(lat, -90) \/ GreaterThan(lat, 90)
          THEN Thrown(<<"Latitude must be between -90 and 90">>)
        ELSE Returned([lat |-> lat, lng |-> lng])

\* parseBracket without the range checks
parseBracketUnchecked(latStr, lngStr) ==
    LET lat == parseFloat(trim(latStr))
        lng == parseFloat(trim(lngStr))
    IN  IF isNaN(lat) \/ isNaN(lng) THEN Thrown(<<"Invalid coordinates">>)
        ELSE Returned([lat |-> lat, lng |-> lng])

parseBracket(latStr, lngStr) ==
    LET lat == parseFloat(trim(latStr))
        lng == parseFloat(trim(lngStr))
    IN  IF isNaN(lat) \/ isNaN(lng) THEN Thrown(<<"Invalid coordinates">>)
        ELSE IF LessThan(lat, -90) \/ GreaterThan(lat, 90)
          THEN Thrown(<<"Latitude must be between -90 and 90">>)
        ELSE IF LessThan(lng, -180) \/ GreaterThan(lng, 180)
          THEN Thrown(<<"Longitude must be between -180 and 180">>)
        ELSE Returned([lat |-> lat, lng |-> lng])

\* parseAttributes that swallows the SyntaxError and returns {}
parseAttributesLenient(attributesStr) ==
    LET Parsed(r) == IF r.ok THEN r ELSE [ok |-> TRUE, v |-> [t |-> "obj", v |-> <<>>]]
    IN  Parsed(IF trim(attributesStr) = <<>> THEN [ok |-> FALSE] ELSE JSONparse(trim(attributesStr)))

\* parseAttributes: JSON.parse of the trimmed block, {} for an empty one
parseAttributes(attributesStr) ==
    LET trimmed == trim(attributesStr)
    IN  IF trimmed = <<>> THEN [ok |-> TRUE, v |-> [t |-> "obj", v |-> <<>>]]
        ELSE JSONparse(trimmed)

\* the keys parseRemainderAndApply copies, in the order it tests them
AttributeKeys == <<"color", "icon", "group", "description">>

KeyChars(key) ==
    CASE key = "color" -> <<"c", "o", "l", "o", "r">>
      [] key = "icon" -> <<"i", "c", "o", "n">>
      [] key = "group" -> <<"g", "r", "o", "u", "p">>
      [] key = "description" -> <<"d", "e", "s", "c", "r", "i", "p", "t", "i", "o", "n">>

\* the copy without the typeof test: `if (attributes.key) pin.key = ...`
CopiesTruthy(attributes, key) ==
    LET value == Member(attributes, KeyChars(key))
    IN  /\ value # Undefined
        /\ value.t # "null"
        /\ value.t = "str" => value.v # <<>>
        /\ value.t = "bool" => value.v
        /\ value.t = "num" => value.v # <<"0">>

\* `typeof attributes.key === "string"` alone
CopiesAnyString(attributes, key) == Member(attributes, KeyChars(key)).t = "str"

\* `if (attributes.key && typeof attributes.key === "string") pin.key = ...`
CopiesAttribute(attributes, key) == TruthyString(Member(attributes, KeyChars(key)))

RECURSIVE ApplyAttributes(_, _, _)
ApplyAttributes(pin, attributes, k) ==
    IF k > Len(AttributeKeys) THEN pin
    ELSE LET key == AttributeKeys[k]
         IN  ApplyAttributes(
                 IF CopiesAttribute(attributes, key)
                 THEN Put(pin, key, Member(attributes, KeyChars(key)).v)
                 ELSE pin,
                 attributes, k + 1)

\* parseRemainderAndApply that keeps a label the pin already has
parseRemainderAndApplyKeepingLabel(pin, remainder) ==
    LET remainderTrimmed == trim(remainder)
        jm         == jsonMatch(remainderTrimmed)
        Label(text) == IF "label" \in DOMAIN pin THEN pin
                       ELSE Put(pin, "label", parseLabel(text))
        labelPart  == trim(jm.labelPart)
        labelled   == IF labelPart # <<>> THEN Label(labelPart) ELSE pin
        attributes == parseAttributes(jm.jsonPart)
    IN  IF remainderTrimmed = <<>> THEN Returned(pin)
        ELSE IF jm.matched
          THEN IF ~attributes.ok THEN Thrown(<<"Invalid JSON attributes">>)
               ELSE IF attributes.v.t = "obj"
                 THEN Returned(ApplyAttributes(labelled, attributes.v, 1))
               ELSE Returned(labelled)
        ELSE Returned(Label(remainderTrimmed))

parseRemainderAndApply(pin, remainder) ==
    LET remainderTrimmed == trim(remainder)
        jm         == jsonMatch(remainderTrimmed)
        labelPart  == trim(jm.labelPart)
        labelled   == IF labelPart # <<>> THEN Put(pin, "label", parseLabel(labelPart))
                      ELSE pin
        attributes == parseAttributes(jm.jsonPart)
    IN  IF remainderTrimmed = <<>> THEN Returned(pin)
        ELSE IF jm.matched
          THEN IF ~attributes.ok THEN Thrown(<<"Invalid JSON attributes">>)
               ELSE IF attributes.v.t = "obj"
                 THEN Returned(ApplyAttributes(labelled, attributes.v, 1))
               ELSE Returned(labelled)
        ELSE Returned(Put(pin, "label", parseLabel(remainderTrimmed)))

InvalidFormat ==
    <<"Invalid format",
      ". Use: [lat, lng] label {\"optional\": \"attributes\"} or [Plus Code] label {\"optional\": \"attributes\"}">>

\* the comment as a fallback: it gives the description only when the
\* attributes gave none
WithCommentUnlessSet(result, comment) ==
    IF result.ok /\ comment # <<>> /\ "description" \notin DOMAIN result.pin
    THEN Returned(Put(result.pin, "description", comment))
    ELSE result

\* `if (comment) finalPin.description = comment`
WithComment(result, comment) ==
    IF result.ok /\ comment # <<>>
    THEN Returned(Put(result.pin, "description", comment))
    ELSE result

Null == [ok |-> TRUE, null |-> TRUE]

parseMapLine(line) ==
    LET Labelled(pin, plusCodeLabel) ==
            IF plusCodeLabel # <<>> THEN Put(pin, "label", parseLabel(plusCodeLabel))
            ELSE pin
        PlusCodePin(pm, decoded, remainder, comment) ==
            IF ~decoded.ok THEN decoded
            ELSE WithComment(
                     parseRemainderAndApply(
                         Labelled(Put(decoded.pin, "plusCode", toUpperCase(pm.plusCode)),
                                  trim(pm.label)),
                         remainder),
                     comment)
        CoordinatesPin(coordpin, remainder, comment) ==
            IF ~coordpin.ok THEN coordpin
            ELSE WithComment(parseRemainderAndApply(coordpin.pin, remainder), comment)
        Contents(bm, pm, cm, comment) ==
            IF bm.matched /\ pm.matched
            THEN PlusCodePin(pm, parsePlusCode(pm.plusCode), bm.remainder, comment)
            ELSE IF bm.matched /\ cm.matched
            THEN CoordinatesPin(parseBracket(cm.latStr, cm.lngStr), bm.remainder, comment)
            ELSE Thrown(InvalidFormat)
        Bracket(bm, comment) ==
            Contents(bm, plusCodeMatch(bm.contents), coordMatch(bm.contents), comment)
        Stripped(commentIndex) ==
            Bracket(bracketMatch(IF commentIndex # -1
                                 THEN trim(substring(line, 0, commentIndex)) ELSE line),
                    IF commentIndex # -1 THEN trim(substringFrom(line, commentIndex + 1))
                    ELSE <<>>)
    IN  IF trim(line) = <<>> THEN Null ELSE Stripped(findCommentIndex(line))

\* parseYamlConfig: the key: value lines of the frontmatter; only
\* mapLayerURL is kept
RECURSIVE YamlLines(_, _)
YamlLines(ls, cfg) ==
    IF ls = <<>> THEN cfg
    ELSE LET line       == Head(ls)
             colonIndex == indexOf(line, <<":">>, 0)
             key        == trim(substring(line, 0, colonIndex))
             value      == trim(substringFrom(line, colonIndex + 1))
             unquoted   == IF \/ (startsWith(value, <<"\"">>) /\ endsWith(value, <<"\"">>))
                              \/ (startsWith(value, <<"'">>) /\ endsWith(value, <<"'">>))
                           THEN slice1(value) ELSE value
         IN  IF colonIndex = -1 THEN YamlLines(Tail(ls), cfg)
             ELSE IF key = <<"m", "a", "p", "L", "a", "y", "e", "r", "U", "R", "L">>
               THEN YamlLines(Tail(ls), Put(cfg, "mapLayerURL", unquoted))
             ELSE YamlLines(Tail(ls), cfg)

\* the empty object {}
EmptyObject == [k \in {} |-> <<>>]

\* lines.map(trim).filter(non-empty)
TrimmedLines(text) == SelectSeq([i \in DOMAIN split(text) |-> trim(split(text)[i])],
                                LAMBDA l : l # <<>>)

parseYamlConfig(yamlContent) == YamlLines(TrimmedLines(yamlContent), EmptyObject)

----------------------------------------------------------------------------
(* parseMapSyntax as a state machine: the preparation (frontmatter, split, *)
(* trim, filter), one step per iteration of the for loop, and the return.  *)

NoConfig == [defined |-> FALSE]

Frontmatter == <<"-", "-", "-">>

\* the 0-based index of the closing "---" of a leading frontmatter block,
\* -1 when the text has no such block
frontmatterEndIndex(trimmedSource) ==
    IF startsWith(trimmedSource, Frontmatter) THEN indexOf(trimmedSource, Frontmatter, 3)
    ELSE -1

contentToParse(trimmedSource) ==
    LET end == frontmatterEndIndex(trimmedSource)
    IN  IF end # -1 THEN trim(substringFrom(trimmedSource, end + 3)) ELSE trimmedSource

configOf(trimmedSource) ==
    LET end == frontmatterEndIndex(trimmedSource)
    IN  IF end # -1
        THEN [defined |-> TRUE, value |-> parseYamlConfig(trim(substring(trimmedSource, 3, end)))]
        ELSE NoConfig

\* the filter without its "#" test: .filter(line => line)
filteredNonEmpty(content) ==
    SelectSeq([i \in DOMAIN split(content) |-> trim(split(content)[i])],
              LAMBDA line : line # <<>>)

\* .split("\n").map(trim).filter(line => line && !line.startsWith("#"))
filteredLines(content) ==
    SelectSeq([i \in DOMAIN split(content) |-> trim(split(content)[i])],
              LAMBDA line : line # <<>> /\ ~startsWith(line, <<"#">>))

\* the error string with the 0-based index
ErrorStringZeroBased(index, message) == <<"Line ", index, ": ">> \o message

\* `Line ${lineIndex + 1}: ${error.message}`
ErrorString(index, message) == <<"Line ", index + 1, ": ">> \o message

Prepare ==
    /\ pc = "start"
    /\ lines' = filteredLines(contentToParse(trim(source)))
    /\ config' = configOf(trim(source))
    /\ lineIndex' = 0
    /\ pc' = "loop"
    /\ UNCHANGED <<given, source, pins, errors>>
    /\ UNCHANGED <<viewVars, componentVars, pluginVars>>

\* the iteration with unshift in place of push
IterateUnshift ==
    /\ pc = "loop"
    /\ lineIndex < Len(lines)
    /\ LET result == parseMapLine(lines[lineIndex + 1])
       IN  /\ pins' = IF result.ok /\ "pin" \in DOMAIN result
                      THEN <<result.pin>> \o pins ELSE pins
           /\ errors' = IF ~result.ok
                        THEN <<ErrorString(lineIndex, result.message)>> \o errors
                        ELSE errors
    /\ lineIndex' = lineIndex + 1
    /\ UNCHANGED <<given, source, pc, lines, config>>
    /\ UNCHANGED <<viewVars, componentVars, pluginVars>>

\* the iteration with the try around the whole loop: the first failing
\* line ends the loop
IterateUntilFailure ==
    /\ pc = "loop"
    /\ lineIndex < Len(lines)
    /\ LET result == parseMapLine(lines[lineIndex + 1])
       IN  /\ pins' = IF result.ok /\ "pin" \in DOMAIN result
                      THEN Append(pins, result.pin) ELSE pins
           /\ errors' = IF ~result.ok
                        THEN Append(errors, ErrorString(lineIndex, result.message))
                        ELSE errors
           /\ lineIndex' = IF result.ok THEN lineIndex + 1 ELSE Len(lines)
    /\ UNCHANGED <<given, source, pc, lines, config>>
    /\ UNCHANGED <<viewVars, componentVars, pluginVars>>

\* one iteration of `for (const [lineIndex, line] of lines.entries())`
Iterate ==
    /\ pc = "loop"
    /\ lineIndex < Len(lines)
    /\ LET result == parseMapLine(lines[lineIndex + 1])
       IN  /\ pins' = IF result.ok /\ "pin" \in DOMAIN result
                      THEN Append(pins, result.pin) ELSE pins
           /\ errors' = IF ~result.ok
                        THEN Append(errors, ErrorString(lineIndex, result.message))
                        ELSE errors
    /\ lineIndex' = lineIndex + 1
    /\ UNCHANGED <<given, source, pc, lines, config>>
    /\ UNCHANGED <<viewVars, componentVars, pluginVars>>

Return ==
    /\ pc = "loop"
    /\ lineIndex = Len(lines)
    /\ pc' = "done"
    /\ UNCHANGED <<given, source, lines, lineIndex, pins, errors, config>>
    /\ UNCHANGED <<viewVars, componentVars, pluginVars>>

Next == Prepare \/ Iterate \/ Return

----------------------------------------------------------------------------
(* calculateBounds (src/src/calculateBounds.ts).  A coordinate is an       *)
(* integer number of units of 1/20000 of a degree, and the coordinates of  *)
(* pins are even, so that the midpoint of two of them is a whole number    *)
(* of units: 0.01 degree is 200 units, 180 degrees 3600000.                *)

Degrees(d) == d * 20000

\* Math.min(...values) and Math.max(...values) of a non-empty list
MathMin(values) == CHOOSE v \in Range(values) : \A w \in Range(values) : v <= w
MathMax(values) == CHOOSE v \in Range(values) : \A w \in Range(values) : v >= w

\* longitudeFit without `if (centerLng > 180) centerLng -= 360`
longitudeFitUnreduced(minLng, maxLng) ==
    LET directSpan        == maxLng - minLng
        crossDateLineSpan == (minLng + Degrees(360)) - maxLng
        wrapped           == (minLng + maxLng + Degrees(360)) \div 2
    IN  IF directSpan > Degrees(180) /\ crossDateLineSpan < directSpan
        THEN [centerLng |-> wrapped, lngSpan |-> crossDateLineSpan]
        ELSE [centerLng |-> (minLng + maxLng) \div 2, lngSpan |-> directSpan]

\* lines 30-48 with `directSpan > 180` alone deciding: the centre and the
\* span in longitude of pins between minLng and maxLng
longitudeFit(minLng, maxLng) ==
    LET directSpan        == maxLng - minLng
        crossDateLineSpan == (minLng + Degrees(360)) - maxLng
        wrapped           == (minLng + maxLng + Degrees(360)) \div 2
    IN  IF directSpan > Degrees(180) /\ crossDateLineSpan < directSpan
        THEN [centerLng |-> IF wrapped > Degrees(180) THEN wrapped - Degrees(360) ELSE wrapped,
              lngSpan   |-> crossDateLineSpan]
        ELSE [centerLng |-> (minLng + maxLng) \div 2, lngSpan |-> directSpan]

\* the zoom of a span with zoom 0 for the widest spans
zoomOfWholeWorld(maxSpan) ==
    IF maxSpan < 200 THEN 15
    ELSE IF maxSpan < 2000 THEN 12
    ELSE IF maxSpan < Degrees(1) THEN 9
    ELSE IF maxSpan < Degrees(10) THEN 6
    ELSE IF maxSpan < Degrees(50) THEN 4
    ELSE IF maxSpan < Degrees(100) THEN 3
    ELSE 0

\* lines 54-61: the zoom of a span
zoomOf(maxSpan) ==
    IF maxSpan < 200 THEN 15
    ELSE IF maxSpan < 2000 THEN 12
    ELSE IF maxSpan < Degrees(1) THEN 9
    ELSE IF maxSpan < Degrees(10) THEN 6
    ELSE IF maxSpan < Degrees(50) THEN 4
    ELSE IF maxSpan < Degrees(100) THEN 3
    ELSE 2

\* calculateBounds with the single pin's center as [lat, lng]
calculateBoundsLatitudeFirst(ps) ==
    LET lats == [i \in DOMAIN ps |-> ps[i].lat]
        lngs == [i \in DOMAIN ps |-> ps[i].lng]
        View(minLat, maxLat, lng) ==
            [center |-> <<lng.centerLng, (minLat + maxLat) \div 2>>,
             zoom   |-> zoomOf(IF maxLat - minLat >= lng.lngSpan
                               THEN maxLat - minLat ELSE lng.lngSpan)]
    IN  IF Len(ps) = 0 THEN [center |-> <<0, 0>>, zoom |-> 2]
        ELSE IF Len(ps) = 1 THEN [center |-> <<ps[1].lat, ps[1].lng>>, zoom |-> 15]
        ELSE View(MathMin(lats), MathMax(lats),
                  longitudeFit(MathMin(lngs), MathMax(lngs)))

\* the result is [center |-> <<longitude, latitude>>, zoom |-> z]
calculateBounds(ps) ==
    LET lats == [i \in DOMAIN ps |-> ps[i].lat]
        lngs == [i \in DOMAIN ps |-> ps[i].lng]
        View(minLat, maxLat, lng) ==
            [center |-> <<lng.centerLng, (minLat + maxLat) \div 2>>,
             zoom   |-> zoomOf(IF maxLat - minLat >= lng.lngSpan
                               THEN maxLat - minLat ELSE lng.lngSpan)]
    IN  IF Len(ps) = 0 THEN [center |-> <<0, 0>>, zoom |-> 2]
        ELSE IF Len(ps) = 1 THEN [center |-> <<ps[1].lng, ps[1].lat>>, zoom |-> 15]
        ELSE View(MathMin(lats), MathMax(lats),
                  longitudeFit(MathMin(lngs), MathMax(lngs)))

\* a pin at lat, lng given in units of 1/10000 of a degree
PinAt(lat, lng) == [lat |-> 2 * lat, lng |-> 2 * lng]

\* the pins of the tests and of TEST.md: Times Square and points 0.0001,
\* 0.05 and 1 degree from it, Paris, Melbourne, Svalbard, the two pins of
\* the date line test, Honolulu, Tokyo, Auckland, and points at 0 and +-170 degrees
\* of longitude
BoundsPins ==
    {PinAt(407589, -739851), PinAt(407590, -739852), PinAt(408089, -739351),
     PinAt(417589, -729851), PinAt(488566, 23522), PinAt(-378136, 1449631),
     PinAt(710308, -80267), PinAt(600000, 1790000), PinAt(500000, -1790000),
     PinAt(213099, -1578581), PinAt(356762, 1396503), PinAt(-368485, 1747633),
     PinAt(100000, 0), PinAt(100000, 1700000), PinAt(100000, -1700000)}

MaxPins == 3

\* calculateBounds(visiblePins)
Calculate ==
    /\ optimalView = null
    /\ optimalView' = calculateBounds(visiblePins)
    /\ UNCHANGED <<visiblePins, parserVars, componentVars, pluginVars>>

\* one more pin, and calculateBounds of the longer list
AddPin ==
    /\ optimalView # null
    /\ Len(visiblePins) < MaxPins
    /\ \E p \in BoundsPins :
           /\ visiblePins' = Append(visiblePins, p)
           /\ optimalView' = calculateBounds(visiblePins')
    /\ UNCHANGED <<parserVars, componentVars, pluginVars>>

BoundsInit == ParserIdle /\ ViewIdle /\ ComponentIdle /\ PluginIdle

BoundsNext == Calculate \/ AddPin

BoundsSpec == BoundsInit /\ [][BoundsNext]_vars

----------------------------------------------------------------------------
(* MapComponent (src/unnamed/part_004, lines 161-856).  The component     *)
(* compares pin objects by identity; the pins of one list differ here, so  *)
(* equal records are the same pin.  The map of olMapRef is                 *)
(* [features, selectedPin, view]: the                                      *)
(* pins it shows, the value of selectedPin its click handler closed over   *)
(* when the map was created, and the center and zoom of its view.  An      *)
(* event is one action: the handler, the render that follows and the       *)
(* effects of that render.                                                 *)

\* pins.filter((pin) => !pin.group || !hiddenGroups.has(pin.group))
visiblePinsOf(p, hidden) ==
    SelectSeq(p.pins, LAMBDA pin : "group" \notin DOMAIN pin \/ pin.group \notin hidden)

\* the map-creation effect alone
mapEffectsCreationOnly(p, hidden, selected) ==
    LET Created(shown) ==
            IF Len(shown) > 1 THEN calculateBounds(shown)
            ELSE [center |-> p.initialCenter, zoom |-> p.initialZoom]
        After(shown) ==
            [olMapRef |-> [features |-> shown, selectedPin |-> selected, view |-> Created(shown)],
             initialViewRef |-> Created(shown)]
    IN  After(visiblePinsOf(p, hidden))

\* the map-creation effect (lines 189-347) followed by the
\* bounds-recalculation effect (lines 358-392), olMapRef.current being
\* null when they start: what they leave in olMapRef and initialViewRef
mapEffects(p, hidden, selected) ==
    LET Created(shown) ==
            IF Len(shown) > 1 THEN calculateBounds(shown)
            ELSE [center |-> p.initialCenter, zoom |-> p.initialZoom]
        Recalculated(shown) ==
            IF Len(shown) > 1 THEN calculateBounds(shown)
            ELSE [center |-> <<shown[1].lng, shown[1].lat>>, zoom |-> p.initialZoom]
        Final(shown) == IF Len(shown) > 0 THEN Recalculated(shown) ELSE Created(shown)
        After(shown) ==
            [olMapRef |-> [features |-> shown, selectedPin |-> selected, view |-> Final(shown)],
             initialViewRef |-> Final(shown)]
    IN  After(visiblePinsOf(p, hidden))

\* the first render and its effects
Mount ==
    /\ props # null
    /\ olMapRef = null
    /\ olMapRef' = mapEffects(props, hiddenGroups, selectedPin).olMapRef
    /\ initialViewRef' = mapEffects(props, hiddenGroups, selectedPin).initialViewRef
    /\ lastEvent' = [type |-> "mount"]
    /\ UNCHANGED <<props, hiddenGroups, selectedPin, parserVars, viewVars, pluginVars>>

\* map.on("click") with a feature under the pointer (lines 315-323); the
\* selectedPin it tests is the one the handler closed over
ClickPin ==
    /\ olMapRef # null
    /\ \E k \in DOMAIN olMapRef.features :
           LET clickedPin == olMapRef.features[k]
           IN  /\ selectedPin' = IF olMapRef.selectedPin # null /\ olMapRef.selectedPin = clickedPin
                                 THEN null ELSE clickedPin
               /\ lastEvent' = [type |-> "pin", pin |-> clickedPin, selectedPin |-> selectedPin]
    /\ UNCHANGED <<props, hiddenGroups, olMapRef, initialViewRef, parserVars, viewVars, pluginVars>>

\* map.on("click") with no feature under the pointer (lines 324-327)
ClickEmpty ==
    /\ olMapRef # null
    /\ selectedPin' = null
    /\ lastEvent' = [type |-> "empty", selectedPin |-> selectedPin]
    /\ UNCHANGED <<props, hiddenGroups, olMapRef, initialViewRef, parserVars, viewVars, pluginVars>>

\* the close button of the details panel, shown while a pin is selected
\* (lines 497, 533)
ClickClose ==
    /\ olMapRef # null
    /\ selectedPin # null
    /\ selectedPin' = null
    /\ lastEvent' = [type |-> "close", selectedPin |-> selectedPin]
    /\ UNCHANGED <<props, hiddenGroups, olMapRef, initialViewRef, parserVars, viewVars, pluginVars>>

\* the groups of the dropdown (lines 185-187)
groups(p) == {p.pins[i].group : i \in {j \in DOMAIN p.pins : "group" \in DOMAIN p.pins[j]}}

\* onToggleGroup (lines 782-790); hiddenGroups is a dependency of the
\* map-creation effect, whose cleanup (lines 342-347) clears olMapRef, so
\* both effects run again
ToggleGroup ==
    /\ olMapRef # null
    /\ \E group \in groups(props) :
           /\ hiddenGroups' = IF group \in hiddenGroups THEN hiddenGroups \ {group}
                              ELSE hiddenGroups \cup {group}
           /\ lastEvent' = [type |-> "toggle", group |-> group]
    /\ olMapRef' = mapEffects(props, hiddenGroups', selectedPin).olMapRef
    /\ initialViewRef' = mapEffects(props, hiddenGroups', selectedPin).initialViewRef
    /\ UNCHANGED <<props, selectedPin, parserVars, viewVars, pluginVars>>

\* a pin of a group, and one of none
GroupPin(lat, lng, group) == [lat |-> 2 * lat, lng |-> 2 * lng, group |-> group]

\* the pins a component is given: the four of "Multiple Pins with Groups"
\* of TEST.md, three of "Grouping with Colors" with the group of the second
\* left out, two of one group, and one without a group
ComponentPins ==
    {<<GroupPin(407589, -739851, "attractions"), GroupPin(-378136, 1449631, "cities"),
       GroupPin(488566, 23522, "cities"), GroupPin(515074, -1278, "cities")>>,
     <<GroupPin(488530, 23499, "landmarks"), PinAt(488566, 23522),
       GroupPin(488738, 22950, "dining")>>,
     <<GroupPin(407589, -739851, "a"), GroupPin(407505, -739934, "a")>>,
     <<PinAt(407589, -739851)>>}

\* the props processMap passes: initialCenter is the first pin (part_005
\* line 168), initialZoom the defaultZoom setting
ComponentInit ==
    /\ ParserIdle /\ ViewIdle /\ PluginIdle
    /\ \E ps \in ComponentPins, zoom \in {15, 10} :
           props = [pins |-> ps, initialCenter |-> <<ps[1].lng, ps[1].lat>>, initialZoom |-> zoom]
    /\ hiddenGroups = {} /\ selectedPin = null
    /\ olMapRef = null /\ initialViewRef = null /\ lastEvent = null

ComponentNext == Mount \/ ClickPin \/ ClickEmpty \/ ClickClose \/ ToggleGroup

ComponentSpec == ComponentInit /\ [][ComponentNext]_vars

----------------------------------------------------------------------------
(* MapPlugin (src/unnamed/part_005, lines 94-237).  containers[k] is what  *)
(* the k-th call of processMap left in its element:                        *)
(* [root, inElement, observed], root being "none" when the call returned   *)
(* before createRoot, "rendered" or "unmounted"; mapInstances holds the    *)
(* k of the containers it has as keys.                                     *)

\* what parseMapSyntax returned, as far as processMap reads it: the number
\* of pins and the number of errors
ParseResults ==
    {[pins |-> 0, errors |-> 0], [pins |-> 0, errors |-> 1],
     [pins |-> 1, errors |-> 0], [pins |-> 3, errors |-> 1]}

MaxMaps == 4

\* processMap (lines 138-237), called by the code block processor that
\* onload registers and unloading removes
processMap ==
    /\ ~unloaded
    /\ Len(containers) < MaxMaps
    /\ \E parseResult \in ParseResults :
           IF parseResult.pins = 0
           THEN /\ containers' = Append(containers, [root |-> "none", inElement |-> FALSE,
                                                     observed |-> FALSE])
                /\ UNCHANGED mapInstances
           ELSE /\ containers' = Append(containers, [root |-> "rendered", inElement |-> TRUE,
                                                     observed |-> TRUE])
                /\ mapInstances' = mapInstances \cup {Len(containers) + 1}
    /\ UNCHANGED <<unloaded, parserVars, viewVars, componentVars>>

\* the container, or a node around it, is removed from the element; the
\* MutationObserver callback (lines 213-225) runs
removeContainer ==
    /\ \E k \in DOMAIN containers :
           /\ containers[k].inElement
           /\ containers' = [containers EXCEPT ![k].inElement = FALSE, ![k].observed = FALSE]
           /\ mapInstances' = IF containers[k].observed THEN mapInstances \ {k} ELSE mapInstances
    /\ UNCHANGED <<unloaded, parserVars, viewVars, componentVars>>

\* onunload (lines 106-116)
onunload ==
    /\ ~unloaded
    /\ containers' = [k \in DOMAIN containers |->
                        IF k \in mapInstances THEN [containers[k] EXCEPT !.root = "unmounted"]
                        ELSE containers[k]]
    /\ mapInstances' = {}
    /\ unloaded' = TRUE
    /\ UNCHANGED <<parserVars, viewVars, componentVars>>

PluginInit == ParserIdle /\ ViewIdle /\ ComponentIdle /\ PluginIdle

PluginNext == processMap \/ removeContainer \/ onunload

PluginSpec == PluginInit /\ [][PluginNext]_vars

----------------------------------------------------------------------------
(* The input texts.  A text is written from a sequence of line records;    *)
(* each record keeps, next to the characters of the line, what the line    *)
(* was written from (the numbers of a coordinate pair, the members of an   *)
(* attribute block, the comment), so that a property can say what the      *)
(* parser must make of the line.                                           *)

\* the decimal digits of a natural number
RECURSIVE FormatNat(_)
FormatNat(n) ==
    IF n < 10 THEN <<Digits[n + 1]>>
    ELSE FormatNat(n \div 10) \o <<Digits[(n % 10) + 1]>>

\* the last e decimal digits of f, with leading zeros
RECURSIVE FormatFrac(_, _)
FormatFrac(f, e) ==
    IF e = 0 THEN <<>> ELSE FormatFrac(f \div 10, e - 1) \o <<Digits[(f % 10) + 1]>>

\* a finite number as JavaScript prints it: -73.9851, 90, 0.5
FormatNum(x) ==
    LET a == IF x.m < 0 THEN -x.m ELSE x.m
    IN  (IF x.m < 0 THEN <<"-">> ELSE <<>>)
        \o FormatNat(a \div Pow10(x.e))
        \o (IF x.e > 0 THEN <<".">> \o FormatFrac(a % Pow10(x.e), x.e) ELSE <<>>)

\* a field of a coordinate pair: its characters and the number they begin
\* with (NaN when they begin with none)
Field(val, text) == [val |-> val, text |-> text]
NumField(x, suffix) == Field(x, FormatNum(x) \o suffix)

LatFields ==
    {NumField(Normal(-905, 1), <<>>), NumField(Int2Num(-90), <<>>),
     NumField(Normal(407589, 4), <<>>), NumField(Int2Num(90), <<>>),
     NumField(Normal(901, 1), <<>>), NumField(Int2Num(91), <<>>),
     NumField(Int2Num(45), <<"N">>),
     Field(Int2Num(100), <<"1", "e", "2">>),
     Field(Infinity(1), <<"I", "n", "f", "i", "n", "i", "t", "y">>),
     Field(NaN, <<"i", "n", "v", "a", "l", "i", "d">>), Field(NaN, <<"-">>)}

LngFields ==
    {NumField(Int2Num(-181), <<>>), NumField(Int2Num(-180), <<>>),
     NumField(Normal(-739851, 4), <<>>), NumField(Int2Num(180), <<>>),
     NumField(Normal(1805, 1), <<>>), NumField(Int2Num(7), <<" ", "E">>),
     Field(NaN, <<"c", "o", "o", "r", "d", "s">>)}

\* the text of a JSON value, as JSON.stringify writes it (strings here
\* hold no character that needs an escape)
RECURSIVE RenderValue(_), RenderList(_, _), RenderMembers(_, _)
RenderValue(v) ==
    CASE v.t = "str" -> <<"\"">> \o v.v \o <<"\"">>
      [] v.t = "num" -> v.v
      [] v.t = "bool" -> IF v.v THEN <<"t", "r", "u", "e">>
                         ELSE <<"f", "a", "l", "s", "e">>
      [] v.t = "null" -> <<"n", "u", "l", "l">>
      [] v.t = "arr" -> <<"[">> \o RenderList(v.v, 1) \o <<"]">>
      [] v.t = "obj" -> <<"{">> \o RenderMembers(v.v, 1) \o <<"}">>

RenderList(vs, i) ==
    IF i > Len(vs) THEN <<>>
    ELSE (IF i > 1 THEN <<",", " ">> ELSE <<>>) \o RenderValue(vs[i]) \o RenderList(vs, i + 1)

RenderMembers(ms, i) ==
    IF i > Len(ms) THEN <<>>
    ELSE (IF i > 1 THEN <<",", " ">> ELSE <<>>)
         \o <<"\"">> \o ms[i][1] \o <<"\"">> \o <<":", " ">> \o RenderValue(ms[i][2])
         \o RenderMembers(ms, i + 1)

Str(chars) == [t |-> "str", v |-> chars]
Num(chars) == [t |-> "num", v |-> chars]
Bool(b) == [t |-> "bool", v |-> b]
JNull == [t |-> "null"]
Arr(vs) == [t |-> "arr", v |-> vs]
Obj(ms) == [t |-> "obj", v |-> ms]

kColor == <<"c", "o", "l", "o", "r">>
kIcon == <<"i", "c", "o", "n">>
kGroup == <<"g", "r", "o", "u", "p">>
kLabel == <<"l", "a", "b", "e", "l">>
kDescription == <<"d", "e", "s", "c", "r", "i", "p", "t", "i", "o", "n">>

\* an attribute block written from its members, and a block of other text
Block(members) == [written |-> TRUE, json |-> TRUE, members |-> members,
                   text |-> RenderValue(Obj(members))]
RawBlock(text) == [written |-> TRUE, json |-> FALSE, members |-> <<>>, text |-> text]
NoBlock == [written |-> FALSE, json |-> FALSE, members |-> <<>>, text |-> <<>>]

Blocks ==
    {Block(<<>>),
     Block(<<<<kColor, Str(<<"r", "e", "d">>)>>, <<kIcon, Str(<<"s", "t", "a", "r">>)>>>>),
     Block(<<<<kColor, Str(<<"r", "e", "d">>)>>, <<<<"u", "n", "k", "n", "o", "w", "n">>, Str(<<"v", "a", "l", "u", "e">>)>>,
             <<<<"s", "i", "z", "e">>, Num(<<"1", "0">>)>>>>),
     Block(<<<<kColor, Num(<<"1", "2", "3">>)>>, <<kIcon, Bool(TRUE)>>, <<kGroup, Str(<<"v", "a", "l", "i", "d">>)>>>>),
     Block(<<<<kDescription, Str(<<"A">>)>>, <<kGroup, JNull>>, <<kIcon, Arr(<<Str(<<"x">>)>>)>>>>),
     Block(<<<<kColor, Str(<<>>)>>, <<kGroup, Bool(FALSE)>>>>),
     Block(<<<<kColor, Str(<<"r", "e", "d">>)>>, <<kColor, Num(<<"1">>)>>>>),
     Block(<<<<kLabel, Str(<<"L">>)>>, <<<<"l", "a", "t">>, Str(<<"0">>)>>, <<kDescription, Num(<<"5">>)>>>>),
     Block(<<<<kIcon, Obj(<<<<kColor, Str(<<"r", "e", "d">>)>>>>)>>>>),
     Block(<<<<kGroup, Str(<<"a", "{", "b", "}">>)>>>>),
     Block(<<<<kColor, Str(<<"#", "f", "f", "0", "0", "0", "0">>)>>>>),
     RawBlock(<<"{", "i", "n", "v", "a", "l", "i", "d", " ", "j", "s", "o", "n", "}">>),
     RawBlock(<<"{", "'", "c", "o", "l", "o", "r", "'", ":", " ", "'", "r", "e", "d", "'", "}">>)}

\* the text after the closing bracket: a label as written and a block
Rem(label, block) ==
    [label |-> label, block |-> block,
     text |-> (IF label # <<>> THEN <<" ">> \o label ELSE <<>>)
              \o (IF block.written THEN <<" ">> \o block.text ELSE <<>>)]

NoRem == Rem(<<>>, NoBlock)

Labels == {<<>>, <<"H", "o", "m", "e">>, <<"\"", "A", ",", " ", "B", "\"">>, <<"\"", "A", " ", "#", "1", "\"">>}

Rems == {Rem(l, b) : l \in Labels, b \in Blocks \cup {NoBlock}}

FewRems == {NoRem, Rem(<<"H", "o", "m", "e">>, Block(<<<<kColor, Str(<<"r", "e", "d">>)>>>>))}

\* a trailing comment: its text on the line and the description it gives
Comment(text, body) == [text |-> text, body |-> body]
NoComment == Comment(<<>>, <<>>)
Comments == {NoComment, Comment(<<" ", "#", " ", "N", "o", "t", "e">>, <<"N", "o", "t", "e">>), Comment(<<" ", "#">>, <<>>)}

\* "[lat, lng]" with what follows
CoordsLine(lat, lng, rem, comment) ==
    [kind |-> "coords", lat |-> lat, lng |-> lng, rem |-> rem, comment |-> comment,
     text |-> <<"[">> \o lat.text \o <<",", " ">> \o lng.text \o <<"]">>
              \o rem.text \o comment.text]

\* a bracket with one field, or with three or more
RECURSIVE JoinFields(_, _)
JoinFields(fields, i) ==
    IF i > Len(fields) THEN <<>>
    ELSE (IF i > 1 THEN <<",", " ">> ELSE <<>>) \o fields[i].text \o JoinFields(fields, i + 1)

FieldsLine(fields, rem, comment) ==
    [kind |-> "fields", fields |-> fields, rem |-> rem, comment |-> comment,
     text |-> <<"[">> \o JoinFields(fields, 1) \o <<"]">> \o rem.text \o comment.text]

\* "[code label]" with what follows
CodeLine(code, label, rem, comment) ==
    [kind |-> "code", code |-> code, label |-> label, rem |-> rem, comment |-> comment,
     text |-> <<"[">> \o code \o (IF label # <<>> THEN <<" ">> \o label ELSE <<>>)
              \o <<"]">> \o rem.text \o comment.text]

\* a line that does not start with a bracket expression
PlainLine(text) == [kind |-> "plain", text |-> text]

\* lines that are no entries
BlankLine(text) == [kind |-> "blank", text |-> text]
HashLine(text) == [kind |-> "hash", text |-> text]
DashLine == [kind |-> "dash", text |-> Frontmatter]
YamlLine(text) == [kind |-> "yaml", text |-> text]

TimesSquare == <<NumField(Normal(407589, 4), <<>>), NumField(Normal(-739851, 4), <<>>)>>

Codes == {<<"8", "7", "G", "8", "+", "Q", "9">>, <<"8", "7", "g", "8", "+", "q", "9">>, <<"8", "7", "g", "8", "+", "Q", "9">>, <<"G", "8", "Q", "2", "5", "7", "+", "H", "X">>, <<"8", "7", "G", "8", "Q", "2", "5", "7", "9", "+", "H", "X">>, <<"8", "7", "G", "7", "+", "W", "M">>, <<"8", "7", "G", "8", "Q", "2", "5", "7", "+", "H", "X">>,
          <<"6", "A", "B", "Z", "+", "L", "0">>, <<"8", "F", "V", "C", "+", "2", "2">>}

CoordsLines ==
    {CoordsLine(a, b, r, c) : a \in LatFields, b \in LngFields, r \in FewRems,
                               c \in {NoComment, Comment(<<" ", "#", " ", "N", "o", "t", "e">>, <<"N", "o", "t", "e">>)}}
    \cup {CoordsLine(TimesSquare[1], TimesSquare[2], r, c) : r \in Rems, c \in Comments}

FieldsLines ==
    {FieldsLine(fs, r, NoComment) :
        fs \in {<<TimesSquare[1]>>, <<Field(NaN, <<"a", "b", "c">>)>>,
                <<TimesSquare[1], TimesSquare[2], NumField(Int2Num(3), <<>>)>>,
                <<TimesSquare[1], TimesSquare[2], Field(NaN, <<"L", "a", "b", "e", "l">>)>>},
        r \in FewRems}

CodeLines ==
    {CodeLine(code, l, r, c) : code \in Codes, l \in {<<>>, <<"N", "e", "w", " ", "Y", "o", "r", "k", ",", " ", "N", "Y">>},
                                r \in FewRems \cup {Rem(<<"H", "o", "m", "e">>, NoBlock),
                                                    Rem(<<>>, Block(<<<<kColor, Str(<<"r", "e", "d">>)>>>>)),
                                                    Rem(<<>>, RawBlock(<<"{", "i", "n", "v", "a", "l", "i", "d", " ", "j", "s", "o", "n", "}">>)),
                                                    Rem(<<"H", "o", "m", "e">>, RawBlock(<<"{", "i", "n", "v", "a", "l", "i", "d", " ", "j", "s", "o", "n", "}">>))},
                                c \in {NoComment, Comment(<<" ", "#", " ", "N", "o", "t", "e">>, <<"N", "o", "t", "e">>)}}

PlainLines ==
    {PlainLine(<<"8", "7", "G", "8", "+", "Q", "9", " ", "N", "e", "w", " ", "Y", "o", "r", "k", ",", " ", "N", "Y">>), PlainLine(<<"4", "0", ".", "7", "5", "8", "9", ",", " ", "-", "7", "3", ".", "9", "8", "5", "1", ",", " ", "H", "o", "m", "e">>),
     PlainLine(<<"[", "]">>), PlainLine(<<"[", "4", "0", ".", "7", "5", "8", "9", ",", " ", "-", "7", "3", ".", "9", "8", "5", "1">>),
     PlainLine(<<"H", "o", "m", "e", " ", "[", "4", "0", ".", "7", "5", "8", "9", ",", " ", "-", "7", "3", ".", "9", "8", "5", "1", "]">>), PlainLine(<<"[", "4", "0", ".", "7", "5", "8", "9", ",", " ", "-", "7", "3", ".", "9", "8", "5", "1", " ", "#", " ", "]">>),
     PlainLine(<<"-", "-", "-">>)}

\* a line without a trailing comment, followed by " # " and a description
DescribedLine(base, body) ==
    [kind |-> "described", base |-> base, body |-> body,
     text |-> base.text \o <<" ", "#", " ">> \o body]

DescribedLines ==
    {DescribedLine(base, body) :
        base \in {CoordsLine(TimesSquare[1], TimesSquare[2], r, NoComment) : r \in Rems}
                 \cup {l \in CodeLines : l.comment = NoComment /\ l.code \in {<<"8", "7", "G", "8", "+", "Q", "9">>, <<"6", "A", "B", "Z", "+", "L", "0">>}}
                 \cup {CoordsLine(TimesSquare[1], TimesSquare[2], Rem(<<"J", "o", "e", "'", "s">>, NoBlock), NoComment),
                       CodeLine(<<"8", "7", "G", "8", "Q", "2", "5", "7", "+", "H", "X">>, <<"T", "i", "m", "e", "s", " ", "S", "q", "u", "a", "r", "e", ",", " ", "N", "Y">>, Rem(<<"A", "m", "e", "r", "i", "c", "a", "'", "s", " ", "c", "r", "o", "s", "s", "r", "o", "a", "d", "s">>, NoBlock), NoComment)},
        body \in {<<"D">>, <<"a", " ", "#", " ", "b">>}}

\* "[1, 2] label" for labels with and without quote characters
LabelledLines ==
    {[kind |-> "labelled", label |-> label, text |-> <<"[", "1", ",", " ", "2", "]", " ">> \o label] :
        label \in {<<"H", "o", "m", "e">>, <<"\"", "C", "a", "f", "e", "\"">>, <<"'", "C", "a", "f", "e", "'">>, <<"\"", "a", "'">>, <<"'", "a", "\"">>, <<"\"", "\"">>,
                   <<"\"", "a", "\"", "b", "\"">>, <<"\"", "A", "\\", "n", "B", "\"">>, <<"s", "a", "y", " ", "\"", "h", "i", "\"">>, <<"\"">>, <<"'">>}}

\* the lines of the texts of one line
RichLines == CoordsLines \cup FieldsLines \cup CodeLines \cup PlainLines \cup DescribedLines \cup LabelledLines

\* the lines of the texts of several lines
SmallLines ==
    {BlankLine(<<>>), HashLine(<<"#", " ", "n", "o", "t", "e">>), DashLine, YamlLine(<<"m", "a", "p", "L", "a", "y", "e", "r", "U", "R", "L", ":", " ", "\"", "u", ":", "v", "\"">>),
     CoordsLine(NumField(Int2Num(1), <<>>), NumField(Int2Num(2), <<>>), Rem(<<"A">>, NoBlock), NoComment),
     [CoordsLine(NumField(Int2Num(3), <<>>), NumField(Int2Num(4), <<>>), NoRem, NoComment)
        EXCEPT !.text = <<" ", " ">> \o @ \o <<" ">>],
     CoordsLine(NumField(Int2Num(91), <<>>), NumField(Int2Num(181), <<>>), Rem(<<"B">>, NoBlock), NoComment),
     PlainLine(<<"1", ",", " ", "2">>)}

MaxLines == 3

\* the sequences of 2 .. n lines from a set
RECURSIVE Texts(_, _)
Texts(S, n) ==
    IF n = 0 THEN {<<>>}
    ELSE LET shorter == Texts(S, n - 1)
         IN  shorter \cup {Append(t, l) : t \in {u \in shorter : Len(u) = n - 1}, l \in S}

\* texts that open with a frontmatter block: "---", the lines of the
\* block written as "key: value", "---", and the lines that follow
FrontmatterTexts ==
    LET Yaml(key, value) == [kind |-> "yaml", key |-> key, value |-> value,
                             text |-> key \o <<":", " ">> \o value]
        Url(value) == Yaml(<<"m", "a", "p", "L", "a", "y", "e", "r", "U", "R", "L">>, value)
        valid   == CoordsLine(NumField(Int2Num(1), <<>>), NumField(Int2Num(2), <<>>), Rem(<<"A">>, NoBlock), NoComment)
        failing == CoordsLine(NumField(Int2Num(91), <<>>), NumField(Int2Num(181), <<>>), Rem(<<"B">>, NoBlock), NoComment)
        blocks  == {<<Url(<<"\"", "h", "t", "t", "p", "s", ":", "/", "/", "t", "/", "{", "z", "}", ".", "p", "n", "g", "\"">>)>>, <<Url(<<"'", "u", ":", "v", "'">>)>>, <<Url(<<"h", "t", "t", "p", "s", ":", "/", "/", "t", "/", "{", "z", "}", ".", "p", "n", "g">>)>>,
                    <<Url(<<"\"", "u", "'">>)>>, <<Url(<<"\"">>)>>,
                    <<Yaml(<<"t", "i", "t", "l", "e">>, <<"\"", "M", "a", "p", "\"">>), BlankLine(<<>>), Url(<<"\"", "u", ":", "v", "\"">>)>>,
                    <<Yaml(<<"t", "i", "t", "l", "e">>, <<"\"", "M", "a", "p", "\"">>)>>}
        contents == {<<>>, <<valid>>, <<failing>>, <<HashLine(<<"#", " ", "n", "o", "t", "e">>), valid>>,
                     <<failing, BlankLine(<<>>), valid>>}
    IN  {<<DashLine>> \o block \o <<DashLine>> \o content : block \in blocks, content \in contents}

Inputs ==
    {<<l>> : l \in RichLines} \cup {t \in Texts(SmallLines, MaxLines) : Len(t) >= 1}
    \cup FrontmatterTexts

\* the text written from a sequence of lines: the lines joined by "\n"
RECURSIVE Render(_)
Render(ls) ==
    IF ls = <<>> THEN <<>>
    ELSE IF Len(ls) = 1 THEN ls[1].text
    ELSE ls[1].text \o <<"\n">> \o Render(Tail(ls))

Init ==
    /\ given \in Inputs
    /\ source = Render(given)
    /\ pc = "start"
    /\ lines = <<>>
    /\ lineIndex = 0
    /\ pins = <<>>
    /\ errors = <<>>
    /\ config = NoConfig
    /\ ViewIdle /\ ComponentIdle /\ PluginIdle

Spec == Init /\ [][Next]_vars

----------------------------------------------------------------------------
(* What the lines of a text are, told from how the text was written.       *)

\* a line that is neither blank nor a full-line comment
Kept(l) == l.kind \notin {"blank", "hash"}

\* the indices of the "---" lines that open and close a leading
\* frontmatter block; 0 when the text has none
FirstWritten(ls) ==
    LET written == {i \in DOMAIN ls : ls[i].kind # "blank"}
    IN  IF written = {} THEN 0 ELSE CHOOSE i \in written : \A j \in written : i <= j

FrontmatterClose(ls) ==
    LET open    == FirstWritten(ls)
        closers == {i \in DOMAIN ls : i > open /\ ls[i].kind = "dash"}
    IN  IF open = 0 \/ ls[open].kind # "dash" \/ closers = {} THEN 0
        ELSE CHOOSE i \in closers : \A j \in closers : i <= j

\* the lines that follow the frontmatter block (all lines when there is none)
Content(ls) == SubSeq(ls, FrontmatterClose(ls) + 1, Len(ls))

KeptLines(ls) == SelectSeq(ls, Kept)

\* what the parser makes of a line that stands alone in its text
Alone(l) ==
    LET ls == filteredLines(contentToParse(trim(l.text)))
    IN  IF ls = <<>> THEN Null ELSE parseMapLine(ls[1])

\* the 1-based positions, within a sequence of lines, of those that fail
FailingPositions(ls) ==
    LET failing == {i \in DOMAIN ls : ~Alone(ls[i]).ok}
        Rank(i) == Cardinality({j \in failing : j <= i})
    IN  [k \in 1 .. Cardinality(failing) |-> CHOOSE i \in failing : Rank(i) = k]

\* the pins and the messages of the lines of a sequence, in line order
RECURSIVE PinsOf(_), MessagesOf(_)
PinsOf(results) ==
    IF results = <<>> THEN <<>>
    ELSE (IF Head(results).ok /\ "pin" \in DOMAIN Head(results)
          THEN <<Head(results).pin>> ELSE <<>>) \o PinsOf(Tail(results))

MessagesOf(results) ==
    IF results = <<>> THEN <<>>
    ELSE (IF ~Head(results).ok THEN <<Head(results).message>> ELSE <<>>)
         \o MessagesOf(Tail(results))

\* an error string without its "Line k: " prefix, and the k of the prefix
MessageOf(error) == SubSeq(error, 4, Len(error))
LineNumberOf(error) == error[2]

ErrorMessages == [j \in DOMAIN errors |-> MessageOf(errors[j])]
ErrorLineNumbers == [j \in DOMAIN errors |-> LineNumberOf(errors[j])]

----------------------------------------------------------------------------
(* C1 .. C4: the lines of a text                                           *)

C3_LineOrder ==
    LET done == [k \in 1 .. lineIndex |-> parseMapLine(lines[k])]
    IN  /\ lineIndex <= Len(lines)
        /\ pins = PinsOf(done)
        /\ ErrorMessages = MessagesOf(done)

\* two valid lines with different pins, with a failing line between them,
\* have been parsed
C3_Witness ==
    /\ pc = "done"
    /\ Len(given) = 3
    /\ Len(pins) = 2 /\ pins[1] # pins[2]
    /\ FrontmatterClose(given) = 0
    /\ Kept(given[1]) /\ ~Alone(given[2]).ok /\ Kept(given[3])
    /\ pins[1] = Alone(given[1]).pin /\ pins[2] = Alone(given[3]).pin
    /\ Len(errors) = 1

----------------------------------------------------------------------------
(* C5 .. C10: one line                                                     *)

\* the text has one line, of the given kind, and has been parsed
ParsedOne(kinds) == pc = "done" /\ Len(given) = 1 /\ given[1].kind \in kinds

\* a field that is a number and nothing else
Literal(f) == f.val.kind = "num" /\ f.text = FormatNum(f.val)

\* a field that does not begin with a number
NotNumeric(f) == f.val.kind = "NaN"

\* a number outside [-n, n]
Outside(x, n) ==
    \/ x.kind = "Infinity"
    \/ x.kind = "num" /\ (x.m > n * Pow10(x.e) \/ x.m < (-n) * Pow10(x.e))

FirstLine(message) == <<"Line ", 1, ": ">> \o message

\* C5: a line "[lat, lng]" of two numbers, lat in [-90, 90] and lng in
\* [-180, 180], with nothing after the bracket, gives no error and exactly
\* one pin, whose lat and lng are those numbers and which has no other key.
C5_CoordinatesOnly ==
    LET l == given[1]
    IN  (/\ ParsedOne({"coords"})
         /\ Literal(l.lat) /\ Literal(l.lng)
         /\ ~Outside(l.lat.val, 90) /\ ~Outside(l.lng.val, 180)
         /\ l.rem = NoRem /\ l.comment = NoComment)
        => /\ errors = <<>>
           /\ pins = <<[lat |-> l.lat.val, lng |-> l.lng.val]>>

\* "[90, -180]" has been parsed
C5_Witness ==
    /\ ParsedOne({"coords"})
    /\ given[1].text = <<"[", "9", "0", ",", " ", "-", "1", "8", "0", "]">>
    /\ Len(pins) = 1

C7_PinsInRange ==
    \A j \in DOMAIN pins :
        /\ {"lat", "lng"} \subseteq DOMAIN pins[j]
        /\ pins[j].lat.kind = "num" /\ ~Outside(pins[j].lat, 90)
        /\ pins[j].lng.kind = "num" /\ ~Outside(pins[j].lng, 180)

\* a short grid code has given a pin
C7_Witness ==
    /\ ParsedOne({"code"})
    /\ given[1].code = <<"8", "7", "G", "8", "+", "Q", "9">>
    /\ Len(pins) = 1

\* C8, as stated: bracket contents that are not a grid code and not two
\* numeric fields (one field, three or more fields, a non-numeric field)
\* give "Invalid coordinates".
C8_AlwaysInvalidCoordinates ==
    LET l == given[1]
    IN  (\/ ParsedOne({"fields"})
         \/ ParsedOne({"coords"}) /\ (NotNumeric(l.lat) \/ NotNumeric(l.lng)))
        => pins = <<>> /\ errors = <<FirstLine(<<"Invalid coordinates">>)>>

\* C8, amended: bracket contents that are not a grid code give "Invalid
\* coordinates" when they are two comma-separated fields of which one does
\* not begin with a number, and the "Invalid format" error when they are
\* one field or three or more fields; no pin either way.
C8_TwoFieldsOrFormat ==
    LET l == given[1]
    IN  /\ (ParsedOne({"coords"}) /\ (NotNumeric(l.lat) \/ NotNumeric(l.lng)))
           => pins = <<>> /\ errors = <<FirstLine(<<"Invalid coordinates">>)>>
        /\ ParsedOne({"fields"})
           => pins = <<>> /\ errors = <<FirstLine(InvalidFormat)>>

\* a bracket of three fields has given the "Invalid format" error
C8_Witness ==
    /\ ParsedOne({"fields"})
    /\ Len(given[1].fields) = 3
    /\ errors = <<FirstLine(InvalidFormat)>>

\* C9: a line that does not start with a bracket expression gives no pin
\* and one error, whose message starts with "Invalid format".
C9_InvalidFormat ==
    ParsedOne({"plain"})
    => pins = <<>> /\ Len(errors) = 1 /\ MessageOf(errors[1])[1] = "Invalid format"

\* a grid code written without brackets has been parsed
C9_Witness ==
    /\ ParsedOne({"plain"})
    /\ given[1].text = <<"8", "7", "G", "8", "+", "Q", "9", " ", "N", "e", "w", " ", "Y", "o", "r", "k", ",", " ", "N", "Y">>
    /\ Len(errors) = 1

\* the value a block was written with for a key: that of the last member
\* of that name
Written(block, key) ==
    LET hits == {i \in DOMAIN block.members : block.members[i][1] = KeyChars(key)}
    IN  IF hits = {} THEN Undefined
        ELSE block.members[CHOOSE i \in hits : \A j \in hits : j <= i][2]

\* C10: of a pin's keys, only color, icon, group and description can come
\* from the attribute block, each only with the string the block has for
\* it (description otherwise from the comment); lat, lng and label are
\* those of the bracket and the label text, whatever the block holds.
C10_OnlyStringAttributes ==
    LET l == given[1]
        p == pins[1]
    IN  (ParsedOne({"coords", "code"}) /\ pins # <<>>)
        => /\ DOMAIN p \subseteq {"lat", "lng", "label", "plusCode"} \cup Range(AttributeKeys)
           /\ \A key \in Range(AttributeKeys) \cap DOMAIN p :
                  \/ /\ l.rem.block.written
                     /\ Written(l.rem.block, key).t = "str"
                     /\ p[key] = Written(l.rem.block, key).v
                  \/ key = "description" /\ l.comment.body # <<>> /\ p[key] = l.comment.body
           /\ "label" \in DOMAIN p
                  => \/ l.rem.label # <<>> /\ p.label = parseLabel(l.rem.label)
                     \/ l.kind = "code" /\ l.label # <<>> /\ p.label = parseLabel(l.label)
           /\ l.kind = "coords" => p.lat = l.lat.val /\ p.lng = l.lng.val

\* a block with a number for color and a string for group has given a pin
\* with group and without color
C10_Witness ==
    /\ ParsedOne({"coords"})
    /\ Len(pins) = 1
    /\ Written(given[1].rem.block, "color").t = "num"
    /\ Written(given[1].rem.block, "group").t = "str"
    /\ "group" \in DOMAIN pins[1] /\ "color" \notin DOMAIN pins[1]

----------------------------------------------------------------------------
(* C11 .. C20: attribute blocks, comments, grid codes, labels, frontmatter *)

\* C11: a line whose text after the bracket ends with a block that is a
\* valid JSON object (written here from its members, nested objects and
\* strings with braces included) never fails with "Invalid JSON
\* attributes".
C11_ValidJsonAccepted ==
    (/\ ParsedOne({"coords", "code"})
     /\ given[1].rem.block.written /\ given[1].rem.block.json)
    => \A j \in DOMAIN errors : MessageOf(errors[j]) # <<"Invalid JSON attributes">>

\* the centre of the cell of a grid code, for the codes whose centre is
\* known: 87G8+Q9 recovered near the reference location (40.3269375,
\* -73.7340625), and the cell 87G8Q257+HX of the reference location itself,
\* which is also the cell the short code G8Q257+HX is recovered to
Centre ==
    LET nearNewYork == [lat |-> Normal(403269375, 7), lng |-> Normal(-737340625, 7)]
        timesSquare == [lat |-> Normal(407589375, 7), lng |-> Normal(-739850625, 7)]
    IN  (<<"8", "7", "G", "8", "+", "Q", "9">> :> nearNewYork) @@ (<<"8", "7", "g", "8", "+", "q", "9">> :> nearNewYork)
        @@ (<<"8", "7", "g", "8", "+", "Q", "9">> :> nearNewYork)
        @@ (<<"8", "7", "G", "8", "Q", "2", "5", "7", "+", "H", "X">> :> timesSquare)
        @@ (<<"G", "8", "Q", "2", "5", "7", "+", "H", "X">> :> timesSquare)

\* what is in the brackets of a line is valid: two numbers in range, or a
\* grid code with a cell
ValidBracket(l) ==
    IF l.kind = "coords"
    THEN /\ ~NotNumeric(l.lat) /\ ~NotNumeric(l.lng)
         /\ ~Outside(l.lat.val, 90) /\ ~Outside(l.lng.val, 180)
    ELSE l.kind = "code" /\ l.code \in DOMAIN Centre

\* C12: a line with a valid bracket whose text after the bracket ends with
\* a brace-delimited block that is not valid JSON gives the error "Invalid
\* JSON attributes" and no pin, with or without a label.
C12_InvalidJsonFails ==
    (/\ ParsedOne({"coords", "code"})
     /\ ValidBracket(given[1])
     /\ given[1].rem.block.written /\ ~given[1].rem.block.json)
    => pins = <<>> /\ errors = <<FirstLine(<<"Invalid JSON attributes">>)>>

\* a grid-code line with a label and the block {invalid json} has failed
C12_Witness ==
    /\ ParsedOne({"code"})
    /\ given[1].code = <<"8", "7", "G", "8", "+", "Q", "9">>
    /\ given[1].rem.label # <<>>
    /\ given[1].rem.block.written /\ ~given[1].rem.block.json
    /\ errors = <<FirstLine(<<"Invalid JSON attributes">>)>>

\* C13: the description of a pin is the text of the line's trailing
\* comment when that text is not empty, whatever the block holds;
\* otherwise (no comment, or a bare "#") it is the description string of
\* the block, and there is none when the block gives none.
C13_CommentWins ==
    LET l == given[1]
        p == pins[1]
        fromJson == Written(l.rem.block, "description")
    IN  (ParsedOne({"coords", "code"}) /\ pins # <<>>)
        => IF l.comment.body # <<>>
           THEN "description" \in DOMAIN p /\ p.description = l.comment.body
           ELSE IF fromJson.t = "str" /\ fromJson.v # <<>>
           THEN "description" \in DOMAIN p /\ p.description = fromJson.v
           ELSE "description" \notin DOMAIN p

\* a line with a description in its block and the comment "# Note" has
\* given a pin with the description "Note"
C13_Witness ==
    /\ ParsedOne({"coords"})
    /\ Len(pins) = 1
    /\ Written(given[1].rem.block, "description") = Str(<<"A">>)
    /\ given[1].comment.body = <<"N", "o", "t", "e">>
    /\ pins[1].description = <<"N", "o", "t", "e">>

\* a label without the pair of quotes around it: a label of at least two
\* characters that starts and ends with the same quote character loses
\* those two characters, every other label is unchanged
Dequoted(label) ==
    IF Len(label) >= 2 /\ label[1] = label[Len(label)] /\ label[1] \in {"\"", "'"}
    THEN SubSeq(label, 2, Len(label) - 1)
    ELSE label

C15_DescriptionAdded ==
    (ParsedOne({"described"}) /\ Alone(given[1].base).ok)
    => /\ errors = <<>>
       /\ pins = <<Put(Alone(given[1].base).pin, "description", given[1].body)>>

\* C16: a grid-code line in any letter case gives what the line with the
\* code in upper case gives, lat and lng included, and its pin's plusCode
\* is the code in upper case without the label text of the brackets; when
\* no line of the text holds a grid code, no pin has a plusCode.
C16_CanonicalCode ==
    LET Canonical(code) ==
            [i \in DOMAIN code |-> CASE code[i] = "g" -> "G"
                                      [] code[i] = "q" -> "Q"
                                      [] OTHER -> code[i]]
        InUpperCase(l) == Alone(CodeLine(Canonical(l.code), l.label, l.rem, l.comment))
    IN  /\ (pc = "done" /\ \A i \in DOMAIN given : given[i].kind \notin {"code", "described"})
           => \A k \in DOMAIN pins : "plusCode" \notin DOMAIN pins[k]
        /\ ParsedOne({"code"})
           => IF InUpperCase(given[1]).ok
              THEN /\ errors = <<>>
                   /\ pins = <<InUpperCase(given[1]).pin>>
                   /\ pins[1].plusCode = Canonical(given[1].code)
              ELSE /\ pins = <<>>
                   /\ errors = <<FirstLine(InUpperCase(given[1]).message)>>

C16_Witness ==
    /\ ParsedOne({"code"})
    /\ given[1].code = <<"8", "7", "g", "8", "+", "Q", "9">>
    /\ given[1].label # <<>>
    /\ Len(pins) = 1
    /\ pins[1].plusCode = <<"8", "7", "G", "8", "+", "Q", "9">>
    /\ pins[1].lat = Normal(403269375, 7)

\* C17: a code with fewer than 8 characters before its "+" is recovered
\* against the reference location and then decoded, a code with 8 is
\* decoded as it is, and the pin is at the centre of the cell; a code that
\* cannot be recovered (6ABZ+L0) or decoded (87G8Q2579+HX) gives no pin and
\* exactly one error, which starts with "Invalid Plus Code:".
C17_ShortCodesRecovered ==
    LET l == given[1]
        Failing == {<<"6", "A", "B", "Z", "+", "L", "0">>, <<"8", "7", "G", "8", "Q", "2", "5", "7", "9", "+", "H", "X">>}
        InvalidPlusCode(error) == MessageOf(error)[1] = "Invalid Plus Code: "
    IN  ParsedOne({"code"})
        => IF l.code \in Failing
           THEN pins = <<>> /\ Len(errors) = 1 /\ InvalidPlusCode(errors[1])
           ELSE /\ \A j \in DOMAIN errors : ~InvalidPlusCode(errors[j])
                /\ (~l.rem.block.written \/ l.rem.block.json) => Len(pins) = 1
                /\ (pins # <<>> /\ l.code \in DOMAIN Centre)
                   => pins[1].lat = Centre[l.code].lat /\ pins[1].lng = Centre[l.code].lng

\* the short code G8Q257+HX recovered to the cell of the reference location
C17_Witness ==
    /\ ParsedOne({"code"})
    /\ given[1].code = <<"G", "8", "Q", "2", "5", "7", "+", "H", "X">>
    /\ Len(pins) = 1
    /\ pins[1].lat = Normal(407589375, 7)
    /\ pins[1].lng = Normal(-739850625, 7)

\* C18: on a grid-code line that gives a pin, the label is the label text
\* after the closing bracket when there is one; otherwise (nothing, or
\* only an attribute block, after the bracket) it is the text after the
\* code inside the brackets; and there is no label when there is neither.
C18_LabelPrecedence ==
    LET l == given[1]
        p == pins[1]
    IN  (ParsedOne({"code"}) /\ Len(pins) = 1)
        => IF l.rem.label # <<>> THEN "label" \in DOMAIN p /\ p.label = l.rem.label
           ELSE IF l.label # <<>> THEN "label" \in DOMAIN p /\ p.label = l.label
           ELSE "label" \notin DOMAIN p

\* "[87G8+Q9 New York, NY] Home": the label after the bracket replaces
\* the one inside
C18_Witness ==
    /\ ParsedOne({"code"})
    /\ given[1].label = <<"N", "e", "w", " ", "Y", "o", "r", "k", ",", " ", "N", "Y">>
    /\ given[1].rem.label = <<"H", "o", "m", "e">>
    /\ ~given[1].rem.block.written
    /\ Len(pins) = 1
    /\ pins[1].label = <<"H", "o", "m", "e">>

\* C19: the label of "[1, 2] label" is the label text without its first
\* and last character when these are the same quote character, " or ',
\* and two different characters of the text; it is the label text
\* unchanged otherwise, a lone quote character included.
C19_LabelDequoted ==
    ParsedOne({"labelled"})
    => /\ errors = <<>>
       /\ Len(pins) = 1
       /\ "label" \in DOMAIN pins[1]
       /\ pins[1].label = Dequoted(given[1].label)

\* C20: when a text opens with a frontmatter block ("---", lines
\* "key: value", "---"), the pins, the errors and the line numbers of the
\* errors are those of the lines after the block, the lines of the block
\* giving none; and config.mapLayerURL is the value written for the key
\* mapLayerURL without one pair of surrounding quotes, absent when the
\* block has no such key.
C20_Frontmatter ==
    LET open    == FirstWritten(given)
        close   == FrontmatterClose(given)
        block   == {i \in DOMAIN given : open < i /\ i < close}
        keys    == {i \in block : given[i].kind = "yaml" /\ given[i].key = <<"m", "a", "p", "L", "a", "y", "e", "r", "U", "R", "L">>}
        content == Content(given)
        alone   == [i \in DOMAIN content |-> Alone(content[i])]
    IN  (/\ pc = "done"
         /\ close > 0
         /\ \A i \in block : given[i].kind = "yaml" => "value" \in DOMAIN given[i])
        => /\ pins = PinsOf(alone)
           /\ ErrorMessages = MessagesOf(alone)
           /\ ErrorLineNumbers = FailingPositions(KeptLines(content))
           /\ config.defined
           /\ keys = {} => "mapLayerURL" \notin DOMAIN config.value
           /\ \A i \in keys : /\ "mapLayerURL" \in DOMAIN config.value
                                /\ config.value.mapLayerURL = Dequoted(given[i].value)

----------------------------------------------------------------------------
(* C21 .. C26: calculateBounds                                             *)

\* C21: calculateBounds of no pin returns center [0, 0] and zoom 2, and of
\* one pin center [pin.lng, pin.lat], the longitude first, and zoom 15.
C21_DegenerateViews ==
    /\ (optimalView # null /\ Len(visiblePins) = 0)
       => optimalView = [center |-> <<0, 0>>, zoom |-> 2]
    /\ (optimalView # null /\ Len(visiblePins) = 1)
       => /\ optimalView.center[1] = visiblePins[1].lng
          /\ optimalView.center[2] = visiblePins[1].lat
          /\ optimalView.zoom = 15

\* the view of the single pin at Times Square, [-73.9851, 40.7589]
C21_Witness ==
    /\ Len(visiblePins) = 1
    /\ optimalView # null
    /\ optimalView.center = <<2 * (-739851), 2 * 407589>>
    /\ optimalView.zoom = 15

\* C22: the zoom calculateBounds returns is an integer from 1 to 18,
\* whatever the pins.
C22_ZoomInRange ==
    optimalView # null => optimalView.zoom \in 1 .. 18

\* Svalbard and Melbourne: a span of more than 100 degrees, zoom 2
C22_Witness ==
    /\ optimalView # null
    /\ visiblePins = <<PinAt(710308, -80267), PinAt(-378136, 1449631)>>
    /\ optimalView.zoom = 2

\* C23: adding a pin to a list of at least two pins never increases the
\* zoom calculateBounds returns (the case of the claim in which the second
\* set is the first with one more pin).
C23_ZoomMonotone ==
    [][(Len(visiblePins) >= 2 /\ optimalView # null)
       => optimalView'.zoom <= optimalView.zoom]_vars

\* C24: the longitudes wrap around the date line only when maxLng - minLng
\* exceeds 180 and minLng < -150 and maxLng > 150; for every other list of
\* at least two pins the center longitude is (minLng + maxLng) / 2 and the
\* zoom is that of the larger of the latitude span and maxLng - minLng.
C24_WrapOnlyNearDateLine ==
    LET lats   == [i \in DOMAIN visiblePins |-> visiblePins[i].lat]
        lngs   == [i \in DOMAIN visiblePins |-> visiblePins[i].lng]
        West   == MathMin(lngs)
        East   == MathMax(lngs)
        Tall   == MathMax(lats) - MathMin(lats)
        Wraps  == East - West > Degrees(180) /\ West < Degrees(-150) /\ East > Degrees(150)
    IN  (optimalView # null /\ Len(visiblePins) >= 2 /\ ~Wraps)
        => /\ optimalView.center[1] = (West + East) \div 2
           /\ optimalView.zoom = zoomOf(IF Tall >= East - West THEN Tall ELSE East - West)

\* C25: for at least two pins the center is [centerLng, centerLat] with
\* centerLng from -180 to 180 and centerLat = (minLat + maxLat) / 2; when
\* the longitude extremes are more than 180 degrees apart and both near
\* the date line (minLng < -150, maxLng > 150), centerLng is
\* (minLng + 360 + maxLng) / 2, less 360 when that exceeds 180.
C25_CenterInRange ==
    LET lats    == [i \in DOMAIN visiblePins |-> visiblePins[i].lat]
        lngs    == [i \in DOMAIN visiblePins |-> visiblePins[i].lng]
        West    == MathMin(lngs)
        East    == MathMax(lngs)
        Across  == (West + Degrees(360) + East) \div 2
    IN  (optimalView # null /\ Len(visiblePins) >= 2)
        => /\ Degrees(-180) <= optimalView.center[1]
           /\ optimalView.center[1] <= Degrees(180)
           /\ optimalView.center[2] = (MathMin(lats) + MathMax(lats)) \div 2
           /\ (East - West > Degrees(180) /\ West < Degrees(-150) /\ East > Degrees(150))
              => optimalView.center[1] = IF Across > Degrees(180) THEN Across - Degrees(360)
                                         ELSE Across

\* the pins at [60, 179] and [50, -179]: center [180, 55]
C25_Witness ==
    /\ optimalView # null
    /\ visiblePins = <<PinAt(600000, 1790000), PinAt(500000, -1790000)>>
    /\ optimalView.center = <<Degrees(180), Degrees(55)>>

\* C26: for at least two pins, every pin's latitude is within
\* centerLat +- latSpan / 2 and every pin's longitude within
\* centerLng +- lngSpan / 2 around the globe, latSpan and lngSpan being the
\* spans the zoom is chosen from.
C26_FramesAllPins ==
    LET lats    == [i \in DOMAIN visiblePins |-> visiblePins[i].lat]
        lngs    == [i \in DOMAIN visiblePins |-> visiblePins[i].lng]
        latSpan == MathMax(lats) - MathMin(lats)
        lngSpan == longitudeFit(MathMin(lngs), MathMax(lngs)).lngSpan
        Abs(x)  == IF x < 0 THEN -x ELSE x
        Around(x) == IF (x % Degrees(360)) <= Degrees(180) THEN x % Degrees(360)
                     ELSE Degrees(360) - (x % Degrees(360))
    IN  (optimalView # null /\ Len(visiblePins) >= 2)
        => \A i \in DOMAIN visiblePins :
              /\ 2 * Abs(visiblePins[i].lat - optimalView.center[2]) <= latSpan
              /\ 2 * Around(visiblePins[i].lng - optimalView.center[1]) <= lngSpan

----------------------------------------------------------------------------
(* C27 .. C28: MapComponent                                                *)

\* C27: after any clicks on pins, on the empty map and on the close button
\* and any group toggles, a click on the selected pin clears the selection,
\* a click on another pin selects that pin, and a click on the empty map
\* clears the selection.
C27_ClickTogglesSelection ==
    (lastEvent # null /\ lastEvent.type \in {"pin", "empty"}) =>
        /\ lastEvent.type = "pin" =>
               selectedPin = IF lastEvent.selectedPin = lastEvent.pin THEN null ELSE lastEvent.pin
        /\ lastEvent.type = "empty" => selectedPin = null

\* C28: the map shows exactly the pins that have no group or whose group
\* is not hidden, in their order, and while at least one pin is shown the
\* view of the map and initialViewRef are both the optimal view of the
\* pins shown: calculateBounds of them when there are two or more, centred
\* on the pin when there is one.
C28_ViewFollowsVisiblePins ==
    olMapRef # null =>
        LET Shown(pin) == "group" \notin DOMAIN pin \/ pin.group \notin hiddenGroups
            features == olMapRef.features
        IN  /\ features = SelectSeq(props.pins, Shown)
            /\ Len(features) >= 2 =>
                   /\ olMapRef.view = calculateBounds(features)
                   /\ initialViewRef = calculateBounds(features)
            /\ Len(features) = 1 =>
                   /\ olMapRef.view.center = <<features[1].lng, features[1].lat>>
                   /\ initialViewRef = olMapRef.view

\* the two groups of the three Paris pins are hidden: the map shows the
\* pin without a group alone, the second of the list, and is centred on it
C28_Witness ==
    /\ olMapRef # null /\ lastEvent # null /\ lastEvent.type = "toggle"
    /\ hiddenGroups = {"landmarks", "dining"}
    /\ olMapRef.features = <<PinAt(488566, 23522)>>
    /\ olMapRef.view.center = <<2 * 23522, 2 * 488566>>
    /\ initialViewRef = olMapRef.view
    /\ props.initialCenter # olMapRef.view.center

----------------------------------------------------------------------------
(* C29: MapPlugin                                                          *)

\* C29: after onunload, whatever calls of processMap and removals of
\* containers came before, mapInstances is empty and every React root that
\* processMap created has been unmounted.
C29_UnloadUnmountsEveryRoot ==
    unloaded =>
        /\ mapInstances = {}
        /\ \A k \in DOMAIN containers : containers[k].root # "rendered"

----------------------------------------------------------------------------
(* C30: optional attributes                                                *)

\* C30: whichever of color, icon, group and description a pin of the
\* result has is a string of at least one character.
C30_AttributesNonEmpty ==
    \A i \in DOMAIN pins :
        \A key \in Range(AttributeKeys) \cap DOMAIN pins[i] :
            /\ pins[i][key] # <<>>
            /\ \A k \in DOMAIN pins[i][key] : pins[i][key][k] \in STRING

\* a block with the empty string for one of the four keys, or a comment
\* that is empty once trimmed, has given a pin without that key
C30_Witness ==
    /\ ParsedOne({"coords", "code"})
    /\ Len(pins) = 1
    /\ \E key \in Range(AttributeKeys) :
           /\ key \notin DOMAIN pins[1]
           /\ \/ /\ given[1].rem.block.written
                 /\ Written(given[1].rem.block, key).t = "str"
                 /\ Written(given[1].rem.block, key).v = <<>>
              \/ /\ key = "description"
                 /\ given[1].comment.text # <<>> /\ given[1].comment.body = <<>>

============================================================================
